---- MODULE Spec2Model ----
(***************************************************************************)
(* Model of the vehicle deadline reminder bot (Warmy_Calendar_bot).        *)
(*                                                                         *)
(*   Spec       the reconciliation and classification run of one summary   *)
(*              request: latest_by_plate_event folded over the normalised  *)
(*              observations, then compute_windows.                        *)
(*   SpecStore  the JSON snapshot store (JSONStorage / DataSync): sync,    *)
(*              exclude, restore, and the summary paths of main.py.        *)
(*   SpecRows   every caller of normalize_event reading a data tab that    *)
(*              holds unknown labels, texts that are no date, no plate.    *)
(*   SpecBroadcast, FairBroadcast                                          *)
(*              the daily run and /sendtoday with a Users tab: the         *)
(*              recipients and the loop that sends, send by send.          *)
(*   SpecAuth   the commands and callback queries with their senders:      *)
(*              registration, approval, rejection, deletion, the gates     *)
(*              is_admin and is_approved_user.                             *)
(*   SpecConcurrent                                                        *)
(*              two invocations of sync_from_google_sheets on one event    *)
(*              loop, step by step.                                        *)
(*   SpecFormat format_summary_lt on lists of records given directly.      *)
(*   SpecDetails                                                           *)
(*              /id, /PLATE and the plate button on a data tab that holds  *)
(*              several registration certificate rows of one plate.        *)
(*                                                                         *)
(* Python values: an optional value is a sequence, None is <<>> and a      *)
(* present value x is <<x>>.  A date is its proleptic ordinal (date.min is *)
(* ordinal 1), a datetime is an integer instant.                           *)
(***************************************************************************)
EXTENDS Integers, Sequences, FiniteSets, TLC

VARIABLES
    records,    \* argument of latest_by_plate_event: list of (plate, event_type, expiry, ts)
    pos,        \* index of the next element of the loop of latest_by_plate_event
    buckets,    \* the dict buckets: keys in insertion order and the (expiry, ts) kept per key
    result,     \* the list of DeadlineRecord returned by latest_by_plate_event
    today,      \* argument today of compute_windows
    upcoming,   \* first list returned by compute_windows
    expired,    \* second list returned by compute_windows
    text,       \* the text returned by format_summary_lt, as its lines
    pc,         \* position of the run
    vehicles,   \* JSONStorage.data["vehicles"]: plate -> snapshot
    disk,       \* content of the JSON file
    now,        \* the wall clock read by dt.datetime.now()
    op,         \* the operation that ran last and its argument
    raw,        \* the rows returned by read_data_rows to the last operation
    ret,        \* what the last operation returned
    removed,    \* the plates of to_remove in the last update_vehicle_data_enhanced
    doc_links_lookup, \* the dict doc_links_lookup of the last update_vehicle_data_enhanced
    doc_links,  \* the list doc_links of the last cmd_id, plate_shortcut or on_cb
    sender,     \* update.effective_user of the update the last operation handled
    tasks,      \* the invocations of sync_from_google_sheets on the event loop
    running,    \* the invocation the event loop is running, 0 for none
    users,      \* the rows of the Users tab
    batch,      \* the recipients of the running broadcast, in the order of its loop
    attempts,   \* the calls of send_message of the broadcast, in order, with their outcome
    sent_count, \* sent_count of send_daily_reminders, sent of sendtoday
    error_count \* error_count of send_daily_reminders

runVars == <<records, pos, buckets, result, today, upcoming, expired, text, pc>>

storeVars == <<vehicles, disk, now, op, raw, ret, removed, doc_links_lookup, doc_links, sender, tasks,
               running>>

sendVars == <<users, batch, attempts, sent_count, error_count>>

vars == <<records, pos, buckets, result, today, upcoming, expired, text, pc,
          vehicles, disk, now, op, raw, ret, removed, doc_links_lookup, doc_links, sender, tasks, running,
          users, batch, attempts, sent_count, error_count>>

----------------------------------------------------------------------------
(* Bounds *)

MaxLen == 3
MaxTs == 2
MaxDay == 8
MaxRows == 2
MaxClock == 1
MaxUsers == 2
MaxSection == 2
StartDay == 2

----------------------------------------------------------------------------
(* Python values *)

None == <<>>

Some(x) == <<x>>

\* update.effective_user: the id and the username of the sender of an update
Sender(id, username) == [id |-> id, username |-> username]

\* the operation handles no update: the scheduler or the process starts it
NoSender == Sender(0, None)

\* no invocation of sync_from_google_sheets is on the event loop
NoTasks == <<>>

\* update_vehicle_data_enhanced has not built its dict doc_links_lookup
NoLookup == <<>>

\* no handler has built its list doc_links
NoLinks == <<>>

DateMin == 1

DateLate == 7

Plates == {"P1", "P2"}

\* The (plate, event_type) pairs of the observations that are enumerated:
\* the first carries every (expiry, timestamp) pair, the others every
\* expiry without timestamp.
MainKey == <<"P1", "insurance">>

OtherKeys == {<<"P1", "registration_certificate">>, <<"P2", "insurance">>}

ExpiryValues == {None, Some(DateMin), Some(DateLate)}

TsValues == {None} \cup {Some(t) : t \in 1..MaxTs}

Observations ==
    {<<MainKey[1], MainKey[2], e, t>> : e \in ExpiryValues, t \in TsValues}
    \cup {<<k[1], k[2], e, None>> : k \in OtherKeys, e \in ExpiryValues}

Days == 1..MaxDay

SeqsUpTo(S, n) == UNION {[1..m -> S] : m \in 0..n}

----------------------------------------------------------------------------
(* data_model.py *)

DeadlineRecord(plate, event_type, expiry_date) ==
    [plate |-> plate, event_type |-> event_type, expiry_date |-> expiry_date]

\* (x or dt.date.min): a date is always truthy, only None is replaced
OrDateMin(x) == IF x = None THEN DateMin ELSE x[1]

EmptyBuckets == [keys |-> <<>>, val |-> <<>>]

\* mutant: the key is appended to the iteration order on every assignment
BucketsPut_AppendAlways(b, k, v) ==
    [keys |-> Append(b.keys, k),
     val  |-> [x \in (DOMAIN b.val) \cup {k} |-> IF x = k THEN v ELSE b.val[x]]]

\* buckets[k] = v; a new key goes to the end of the dict's iteration order
BucketsPut(b, k, v) ==
    [keys |-> IF k \in DOMAIN b.val THEN b.keys ELSE Append(b.keys, k),
     val  |-> [x \in (DOMAIN b.val) \cup {k} |-> IF x = k THEN v ELSE b.val[x]]]

\* mutant: the older timestamp wins
NewerTs_Older(ts, prev_ts) ==
    /\ ts # None
    /\ \/ prev_ts = None
       \/ ts[1] < prev_ts[1]

\* ts and ((prev_ts is None) or ts > prev_ts)
NewerTs(ts, prev_ts) ==
    /\ ts # None
    /\ \/ prev_ts = None
       \/ ts[1] > prev_ts[1]

\* mutant: the smaller expiry wins
GreaterExpiry_Smaller(expiry, prev_expiry) == OrDateMin(expiry) < OrDateMin(prev_expiry)

\* expiry greater than the kept one, None compared as dt.date.min
GreaterExpiry(expiry, prev_expiry) == OrDateMin(expiry) > OrDateMin(prev_expiry)

\* one iteration of the loop of latest_by_plate_event
Observe(b, rec) ==
    LET k == <<rec[1], rec[2]>>
        expiry == rec[3]
        ts == rec[4]
    IN  IF k \notin DOMAIN b.val
        THEN BucketsPut(b, k, <<expiry, ts>>)
        ELSE LET prev_expiry == b.val[k][1]
                 prev_ts == b.val[k][2]
             IN  IF GreaterExpiry(expiry, prev_expiry)
                 THEN BucketsPut(b, k, <<expiry, ts>>)
                 ELSE IF expiry = prev_expiry /\ NewerTs(ts, prev_ts)
                      THEN BucketsPut(b, k, <<expiry, ts>>)
                      ELSE b

RECURSIVE FoldBuckets(_, _)
FoldBuckets(b, recs) ==
    IF recs = <<>> THEN b ELSE FoldBuckets(Observe(b, Head(recs)), Tail(recs))

\* the result list: one DeadlineRecord per key, in the dict's order
BucketsToRecords(b) ==
    [n \in 1..Len(b.keys) |->
        DeadlineRecord(b.keys[n][1], b.keys[n][2], b.val[b.keys[n]][1])]

latest_by_plate_event(recs) == BucketsToRecords(FoldBuckets(EmptyBuckets, recs))

\* mutant: registration records are not skipped
SkippedByWindows_OnlyNoExpiry(r) == r.expiry_date = None

\* the two continue statements of compute_windows
SkippedByWindows(r) ==
    \/ r.event_type = "registration_certificate"
    \/ r.expiry_date = None

\* mutant: every lead time from 1 to 5 days is upcoming
InUpcoming_Range(delta) == delta \in 1..5

InUpcoming(delta) == delta \in {5, 1}

InExpired(delta) == (~InUpcoming(delta)) /\ delta < 0

RECURSIVE SelectRecords(_, _, _)
SelectRecords(recs, t, bucket) ==
    IF recs = <<>> THEN <<>>
    ELSE LET r == Head(recs)
             rest == SelectRecords(Tail(recs), t, bucket)
             delta == r.expiry_date[1] - t
             keep == /\ ~SkippedByWindows(r)
                     /\ IF bucket = "upcoming" THEN InUpcoming(delta) ELSE InExpired(delta)
         IN  IF keep THEN <<r>> \o rest ELSE rest

compute_windows(t, recs) ==
    <<SelectRecords(recs, t, "upcoming"), SelectRecords(recs, t, "expired")>>

\* EVENT_LABEL_LT (data_model.py 16-22), written without diacritics
EVENT_LABEL_LT ==
    [event_type \in {"lv_road_toll", "lt_road_toll", "inspection", "insurance",
                     "registration_certificate"} |->
        CASE event_type = "lv_road_toll" -> "LV keliu mokestis"
          [] event_type = "lt_road_toll" -> "LT keliu mokestis"
          [] event_type = "inspection" -> "TA galiojimas"
          [] event_type = "insurance" -> "CA draudimas"
          [] event_type = "registration_certificate" -> "Registracijos liudijimas"]

\* EVENT_LABEL_LT.get(r.event_type, r.event_type)
LabelOf(event_type) ==
    IF event_type \in DOMAIN EVENT_LABEL_LT THEN EVENT_LABEL_LT[event_type] ELSE event_type

\* the place of a text in the order of Python's str, for the plates and
\* the event types that are enumerated
StrRank(s) ==
    CASE s = "P1" -> 1
      [] s = "P2" -> 2
      [] s = "inspection" -> 3
      [] s = "insurance" -> 4
      [] s = "lt_road_toll" -> 5
      [] s = "lv_road_toll" -> 6
      [] s = "registration_certificate" -> 7
      [] OTHER -> 8

\* mutant: the plate is compared before the date
SortKeyLess_PlateFirst(a, b) ==
    \/ StrRank(a.plate) < StrRank(b.plate)
    \/ /\ a.plate = b.plate
       /\ OrDateMin(a.expiry_date) < OrDateMin(b.expiry_date)

\* the key of sorted (data_model.py 78, 85): the tuple
\* (x.expiry_date or dt.date.min, x.plate, x.event_type) of a is less than
\* that of b
SortKeyLess(a, b) ==
    \/ OrDateMin(a.expiry_date) < OrDateMin(b.expiry_date)
    \/ /\ OrDateMin(a.expiry_date) = OrDateMin(b.expiry_date)
       /\ \/ StrRank(a.plate) < StrRank(b.plate)
          \/ /\ a.plate = b.plate
             /\ StrRank(a.event_type) < StrRank(b.event_type)

\* r is put into a sorted list behind every element that is not greater
InsertSorted(list, r) ==
    LET before == {n \in DOMAIN list : ~SortKeyLess(r, list[n])}
        k == Cardinality(before)
    IN  [n \in 1..(Len(list) + 1) |->
            IF n <= k THEN list[n] ELSE IF n = k + 1 THEN r ELSE list[n - 1]]

RECURSIVE SortedRecords(_)
\* sorted(list, key=...): stable, ascending
SortedRecords(list) ==
    IF list = <<>> THEN <<>>
    ELSE InsertSorted(SortedRecords(SubSeq(list, 1, Len(list) - 1)), list[Len(list)])

\* a line of the text: a header, an entry of a section, or the empty line
Line(kind, plate, label, date_str) ==
    [kind |-> kind, plate |-> plate, label |-> label, date_str |-> date_str]

\* (r.expiry_date or dt.date.min).isoformat(): the ordinal stands for the
\* text of the date
DateStr(expiry_date) == OrDateMin(expiry_date)

\* the header and the entries of one section (data_model.py 77-81, 84-88)
Section(kind, list) ==
    IF list = <<>> THEN <<>>
    ELSE <<Line(kind \o "_header", "", "", 0)>>
         \o [n \in DOMAIN list |->
                Line(kind, SortedRecords(list)[n].plate,
                     LabelOf(SortedRecords(list)[n].event_type),
                     DateStr(SortedRecords(list)[n].expiry_date))]

\* the empty line that ends the section of the upcoming (data_model.py 82)
EmptyLine == Line("empty", "", "", 0)

\* the text returned when there are no lines (data_model.py 90)
NoReminders == <<Line("no_reminders", "", "", 0)>>

\* no summary text has been made
NoText == <<>>

\* mutant: the section of the expired comes first
JoinSections_ExpiredFirst(upcoming_lines, expired_lines) == expired_lines \o upcoming_lines

\* lines as the two blocks have appended to it (data_model.py 76-88)
JoinSections(upcoming_lines, expired_lines) == upcoming_lines \o expired_lines

\* format_summary_lt (data_model.py 74-91): the text as the list of its
\* lines
format_summary_lt(upcoming_list, expired_list) ==
    LET lines == JoinSections(
                     IF upcoming_list = <<>> THEN <<>>
                     ELSE Section("upcoming", upcoming_list) \o <<EmptyLine>>,
                     Section("expired", expired_list))
    IN  IF lines = <<>> THEN NoReminders ELSE lines

----------------------------------------------------------------------------
(* The reconciliation and classification run *)

Init ==
    /\ records \in SeqsUpTo(Observations, MaxLen)
    /\ pos = 1
    /\ buckets = EmptyBuckets
    /\ result = <<>>
    /\ today = 0
    /\ upcoming = <<>>
    /\ expired = <<>>
    /\ text = NoText
    /\ pc = "fold"
    /\ vehicles = <<>>
    /\ disk = [state |-> "absent", vehicles |-> <<>>]
    /\ now = 0
    /\ tasks = NoTasks
    /\ running = 0
    /\ op = [name |-> "summary", arg |-> ""]
    /\ raw = <<>>
    /\ ret = [ok |-> FALSE, msg |-> "none"]
    /\ removed = {}
    /\ doc_links_lookup = NoLookup
    /\ doc_links = NoLinks
    /\ sender = NoSender
    /\ users = <<>>
    /\ batch = <<>>
    /\ attempts = <<>>
    /\ sent_count = 0
    /\ error_count = 0

\* data_model.py 39-50: one observation is folded into buckets
FoldStep ==
    /\ pc = "fold"
    /\ pos <= Len(records)
    /\ buckets' = Observe(buckets, records[pos])
    /\ pos' = pos + 1
    /\ UNCHANGED <<records, result, today, upcoming, expired, text, pc>>
    /\ UNCHANGED storeVars
    /\ UNCHANGED sendVars

\* data_model.py 52-55: the result list is built and returned
BuildResult ==
    /\ pc = "fold"
    /\ pos > Len(records)
    /\ result' = BucketsToRecords(buckets)
    /\ pc' = "windows"
    /\ UNCHANGED <<records, pos, buckets, today, upcoming, expired, text>>
    /\ UNCHANGED storeVars
    /\ UNCHANGED sendVars

\* data_model.py 58-71: compute_windows(today, latest)
ComputeWindows ==
    /\ pc = "windows"
    /\ \E t \in Days :
        /\ today' = t
        /\ upcoming' = compute_windows(t, result)[1]
        /\ expired' = compute_windows(t, result)[2]
    /\ pc' = "done"
    /\ UNCHANGED <<records, pos, buckets, result, text>>
    /\ UNCHANGED storeVars
    /\ UNCHANGED sendVars

Next == FoldStep \/ BuildResult \/ ComputeWindows

Spec == Init /\ [][Next]_vars

----------------------------------------------------------------------------
(* sheets_client.py: the rows of the data tab and their normalisation *)

RawRow(plate, event_raw, expiry_raw, doc1, doc2, timestamp) ==
    [plate |-> plate, event_raw |-> event_raw, expiry_raw |-> expiry_raw,
     doc1 |-> doc1, doc2 |-> doc2, timestamp |-> timestamp]

\* the labels are written without diacritics (Keliu for the source's spelling)
EVENT_MAP ==
    [label \in {"LV Keliu mokestis", "LT Keliu mokestis", "TA galiojimas",
                "CA draudimas iki", "Registracijos liudijimas"} |->
        CASE label = "LV Keliu mokestis" -> "lv_road_toll"
          [] label = "LT Keliu mokestis" -> "lt_road_toll"
          [] label = "TA galiojimas" -> "inspection"
          [] label = "CA draudimas iki" -> "insurance"
          [] label = "Registracijos liudijimas" -> "registration_certificate"]

\* str.strip() on the texts that are enumerated
Strip(s) ==
    CASE s = " CA draudimas iki " -> "CA draudimas iki"
      [] s = "  " -> ""
      [] OTHER -> s

\* mutant: a label outside the table is passed on as it is
normalize_event_PassThrough(event_raw) ==
    IF Strip(event_raw) \in DOMAIN EVENT_MAP THEN Some(EVENT_MAP[Strip(event_raw)])
    ELSE Some(Strip(event_raw))

normalize_event(event_raw) ==
    IF Strip(event_raw) \in DOMAIN EVENT_MAP THEN Some(EVENT_MAP[Strip(event_raw)]) ELSE None

\* strptime with "%m/%d/%Y", then "%m/%d/%y", on the texts that are enumerated
parse_mmddyyyy(date_text) ==
    CASE date_text = "" -> None
      [] date_text = "01/01/0001" -> Some(DateMin)
      [] date_text = "01/07/0001" -> Some(DateLate)
      [] OTHER -> None

\* strptime(r.timestamp, "%m/%d/%Y %H:%M:%S"), None when absent or malformed
ParseTimestamp(timestamp) ==
    IF timestamp = None THEN None
    ELSE CASE timestamp[1] = "01/01/0001 00:00:01" -> Some(1)
           [] timestamp[1] = "01/01/0001 00:00:02" -> Some(2)
           [] OTHER -> None

\* the rows a read of the data tab can return
SheetRows ==
    {RawRow("P1", "CA draudimas iki", "01/07/0001", Some("doc"), None,
            Some("01/01/0001 00:00:01")),
     RawRow("P2", "CA draudimas iki", "01/07/0001", None, None, None),
     RawRow("P1", "Kita", "01/07/0001", None, None, None)}

Sheets == SeqsUpTo(SheetRows, MaxRows)

DocLinks(r) ==
    (IF r.doc1 # None THEN <<r.doc1[1]>> ELSE <<>>) \o (IF r.doc2 # None THEN <<r.doc2[1]>> ELSE <<>>)

\* mutant: a row whose expiry text is no date is skipped as well
Skipped_OrUnparsed(r) ==
    normalize_event(r.event_raw) = None \/ parse_mmddyyyy(r.expiry_raw) = None

\* "if not ev: continue", the only test that skips a row in the loops that
\* build the tuples (main.py 34-36, data_sync.py 40-42)
Skipped(r) == normalize_event(r.event_raw) = None

\* the loop that builds tuples in the summary handlers of main.py
RECURSIVE NormalizeRows(_)
NormalizeRows(rows) ==
    IF rows = <<>> THEN <<>>
    ELSE LET r == Head(rows)
             ev == normalize_event(r.event_raw)
         IN  IF Skipped(r) THEN NormalizeRows(Tail(rows))
             ELSE <<<<r.plate, ev[1], parse_mmddyyyy(r.expiry_raw), ParseTimestamp(r.timestamp)>>>>
                      \o NormalizeRows(Tail(rows))

\* the loop that builds raw_tuples in sync_from_google_sheets
RECURSIVE NormalizeRowsWithDocs(_)
NormalizeRowsWithDocs(rows) ==
    IF rows = <<>> THEN <<>>
    ELSE LET r == Head(rows)
             ev == normalize_event(r.event_raw)
         IN  IF Skipped(r) THEN NormalizeRowsWithDocs(Tail(rows))
             ELSE <<<<r.plate, ev[1], parse_mmddyyyy(r.expiry_raw), ParseTimestamp(r.timestamp),
                      DocLinks(r)>>>> \o NormalizeRowsWithDocs(Tail(rows))

\* str.upper() on the plates that are enumerated
Upper(plate) == IF plate = "p1" THEN "P1" ELSE plate

\* the loop that builds tuples in sarasas, cmd_id and plate_shortcut: rows
\* without plate are left out, the plate is stripped and upper-cased
RECURSIVE NormalizeRowsUpper(_)
NormalizeRowsUpper(rows) ==
    IF rows = <<>> THEN <<>>
    ELSE LET r == Head(rows)
             ev == normalize_event(r.event_raw)
         IN  IF Skipped(r) \/ r.plate = "" THEN NormalizeRowsUpper(Tail(rows))
             ELSE <<<<Upper(Strip(r.plate)), ev[1], parse_mmddyyyy(r.expiry_raw),
                      ParseTimestamp(r.timestamp)>>>> \o NormalizeRowsUpper(Tail(rows))

\* further rows a read can return: an expiry text that is no date, a row
\* without plate, and a row that differs from the first of SheetRows by its
\* document links only
DataRows ==
    SheetRows
    \cup {RawRow("P2", "TA galiojimas", "n/a", None, None, None),
          RawRow("", "TA galiojimas", "01/01/0001", None, None, None),
          RawRow("P1", "CA draudimas iki", "01/07/0001", None, Some("doc2"),
                 Some("01/01/0001 00:00:01"))}

DataTabs == SeqsUpTo(DataRows, MaxRows)

----------------------------------------------------------------------------
(* json_storage.py; of self.data the dict "vehicles" is modelled *)

\* date.isoformat() and datetime.isoformat()
IsoDate(d) == <<"date", d>>

IsoDateTime(t) == <<"datetime", t>>

VehicleEvent(event_type, expires, links, updated) ==
    [event_type |-> event_type, expires |-> expires, doc_links |-> links,
     last_updated |-> updated]

VehicleRecord(events, excluded, excluded_at, excluded_by, last_seen) ==
    [events |-> events, excluded |-> excluded, excluded_at |-> excluded_at,
     excluded_by |-> excluded_by, last_seen |-> last_seen]

\* _load_data: the vehicles of the parsed file, or of the empty structure
\* when the file is missing or unreadable
LoadData(file) == IF file.state = "ok" THEN file.vehicles ELSE <<>>

\* _save_data: makedirs, open(..., 'w'), json.dump; any exception gives False.
\*   "saved"     the file holds self.data, True is returned
\*   "unwritten" makedirs or open failed, the file is as before, False
\*   "partial"   open truncated the file and the dump failed, False
SaveOutcomes == {"saved", "unwritten", "partial"}

DiskAfterSave(outcome, data, file) ==
    CASE outcome = "saved" -> [state |-> "ok", vehicles |-> data]
      [] outcome = "unwritten" -> file
      [] outcome = "partial" -> [state |-> "partial", vehicles |-> <<>>]

\* record.timestamp: DeadlineRecord has the fields plate, event_type and
\* expiry_date only, the attribute access raises AttributeError
HasTimestamp(record) == "timestamp" \in DOMAIN record

\* the key (plate, event_type, expiry_date, timestamp) of a raw event
RawEventKey(e) == <<e[1], e[2], e[3], e[4]>>

\* mutant: the first row of a key is kept
DocLinksLookup_FirstWins(all_raw_events) ==
    [k \in {RawEventKey(all_raw_events[n]) : n \in DOMAIN all_raw_events} |->
        LET rows == {n \in DOMAIN all_raw_events : RawEventKey(all_raw_events[n]) = k}
            first == CHOOSE n \in rows : \A m \in rows : n <= m
        IN  all_raw_events[first][5]]

\* doc_links_lookup: the last row of a key overwrites the earlier ones
DocLinksLookup(all_raw_events) ==
    [k \in {RawEventKey(all_raw_events[n]) : n \in DOMAIN all_raw_events} |->
        LET rows == {n \in DOMAIN all_raw_events : RawEventKey(all_raw_events[n]) = k}
            last == CHOOSE n \in rows : \A m \in rows : m <= n
        IN  all_raw_events[last][5]]

\* the event built for one latest record (json_storage.py 115-125)
EventOfRecord(record, lookup, t) ==
    LET key == <<record.plate, record.event_type, record.expiry_date, record.timestamp>>
    IN  VehicleEvent(record.event_type,
                     IF record.expiry_date # None THEN IsoDate(record.expiry_date[1]) ELSE None,
                     IF key \in DOMAIN lookup THEN lookup[key] ELSE <<>>,
                     IF record.timestamp # None THEN IsoDateTime(record.timestamp[1])
                                                ELSE IsoDateTime(t))

RECURSIVE EventsOfPlate(_, _, _, _)
EventsOfPlate(latest_records, plate, lookup, t) ==
    IF latest_records = <<>> THEN <<>>
    ELSE LET rest == EventsOfPlate(Tail(latest_records), plate, lookup, t)
         IN  IF Head(latest_records).plate = plate
             THEN <<EventOfRecord(Head(latest_records), lookup, t)>> \o rest
             ELSE rest

\* new_vehicles (json_storage.py 102-126)
NewVehicles(latest_records, lookup, t) ==
    [plate \in {latest_records[n].plate : n \in DOMAIN latest_records} |->
        VehicleRecord(EventsOfPlate(latest_records, plate, lookup, t),
                      FALSE, None, None, IsoDateTime(t))]

\* the exclusion fields a merged snapshot gets (json_storage.py 130-135)
PreserveExclusion(vehicle_data, existing) ==
    [vehicle_data EXCEPT !.excluded = existing.excluded,
                         !.excluded_at = existing.excluded_at,
                         !.excluded_by = existing.excluded_by]

\* json_storage.py 128-137
MergeVehicles(stored, new_vehicles) ==
    [plate \in (DOMAIN stored) \cup (DOMAIN new_vehicles) |->
        IF plate \in DOMAIN new_vehicles
        THEN IF plate \in DOMAIN stored
             THEN PreserveExclusion(new_vehicles[plate], stored[plate])
             ELSE new_vehicles[plate]
        ELSE stored[plate]]

\* mutant: excluded snapshots are removed as well
ToRemove_IgnoreExcluded(stored, current_plates) ==
    {plate \in DOMAIN stored : plate \notin current_plates}

\* to_remove (json_storage.py 140-144)
ToRemove(stored, current_plates) ==
    {plate \in DOMAIN stored : plate \notin current_plates /\ ~stored[plate].excluded}

\* mutant: nothing is removed
PruneVehicles_KeepAll(stored, current_plates) == stored

\* json_storage.py 139-148
PruneVehicles(stored, current_plates) ==
    [plate \in (DOMAIN stored) \ ToRemove(stored, current_plates) |-> stored[plate]]

\* the list passed to latest_by_plate_event (json_storage.py 87-92)
TuplesOf(vehicles_data) ==
    [n \in DOMAIN vehicles_data |->
        <<vehicles_data[n][1], vehicles_data[n][2], vehicles_data[n][3], vehicles_data[n][4]>>]

\* the list latest_records of update_vehicle_data_enhanced (87-94)
LatestRecords(vehicles_data) == latest_by_plate_event(TuplesOf(vehicles_data))

\* update_vehicle_data_enhanced up to the call of _save_data: either the
\* AttributeError of line 116 (self.data is untouched, new_vehicles is a
\* local), or the new self.data["vehicles"]
update_vehicle_data_enhanced(stored, vehicles_data, t) ==
    LET latest_records == LatestRecords(vehicles_data)
        lookup == DocLinksLookup(vehicles_data)
    IN  IF \E n \in DOMAIN latest_records : ~HasTimestamp(latest_records[n])
        THEN [raised |-> TRUE, vehicles |-> stored, removed |-> {}]
        ELSE LET new_vehicles == NewVehicles(latest_records, lookup, t)
                 merged == MergeVehicles(stored, new_vehicles)
             IN  [raised |-> FALSE,
                  vehicles |-> PruneVehicles(merged, DOMAIN new_vehicles),
                  removed |-> ToRemove(merged, DOMAIN new_vehicles)]

\* JSONStorage.exclude_vehicle (165-172), before the save
ExcludedRecord(v, excluded_by, t) ==
    [v EXCEPT !.excluded = TRUE, !.excluded_at = IsoDateTime(t), !.excluded_by = Some(excluded_by)]

\* JSONStorage.restore_vehicle (176-183), before the save
RestoredRecord(v) ==
    [v EXCEPT !.excluded = FALSE, !.excluded_at = None, !.excluded_by = None]

----------------------------------------------------------------------------
(* The snapshot store and the summary handlers: data_sync.py, main.py *)

\* a snapshot as an earlier run of the bot left it in the JSON file
StoredEvent == VehicleEvent("insurance", IsoDate(DateLate), <<>>, IsoDateTime(0))

StoredActive == VehicleRecord(<<StoredEvent>>, FALSE, None, None, IsoDateTime(0))

\* the JSON files the process can find when it starts
InitFiles ==
    {[state |-> "absent", vehicles |-> <<>>]}
    \cup {[state |-> "ok", vehicles |-> [plate \in ps |-> StoredActive]] : ps \in SUBSET Plates}

\* users_repo.py: of a row of the Users tab the fields the broadcasts read
UserRow(telegram_user_id, telegram_username, telegram_chat_id, status) ==
    [telegram_user_id |-> telegram_user_id, telegram_username |-> telegram_username,
     telegram_chat_id |-> telegram_chat_id, status |-> status]

\* cfg.admin_user_ids
AdminUserIds == {1}

\* chat.id of the private chat of a user
ChatOf(user_id) == 10 + user_id

\* the rows the Users tab can hold: no username, the chat id present or not
UserRows ==
    UNION {{UserRow(uid, None, chat, status) :
               chat \in {None, Some(ChatOf(uid))}, status \in {"approved", "pending", "rejected"}} :
           uid \in 1..MaxUsers}

\* the Users tabs: at most one row per user id
UserTables ==
    {t \in SeqsUpTo(UserRows, MaxUsers) :
        \A i, j \in DOMAIN t : i < j => t[i].telegram_user_id < t[j].telegram_user_id}

\* mutant: every user that is not rejected counts as approved
list_approved_NotRejected(table) ==
    LET NotRejected(u) == u.status # "rejected"
    IN  SelectSeq(table, NotRejected)

\* UsersRepo.list_approved
list_approved(table) ==
    LET Approved(u) == u.status = "approved"
    IN  SelectSeq(table, Approved)

\* UsersRepo.list_all
list_all(table) == table

\* UsersRepo.list_pending
list_pending(table) ==
    LET Pending(u) == u.status = "pending"
    IN  SelectSeq(table, Pending)

\* cfg.admin_usernames (config.py 27-28): lower case, without '@'
AdminUsernames == {"boss"}

\* str.lower() on the usernames that are enumerated
Lower(username) ==
    CASE username = "Boss" -> "boss"
      [] OTHER -> username

\* mutant: every sender that has a username is an admin
is_admin_AnyUsername(u) ==
    \/ u.id \in AdminUserIds
    \/ u.username # None

\* is_admin (main.py 176-183)
is_admin(u) ==
    \/ u.id \in AdminUserIds
    \/ /\ u.username # None
       /\ Lower(u.username[1]) \in AdminUsernames

\* UsersRepo.find_by_user_id: the index of the first row of the user, 0 for
\* None
find_by_user_id(table, user_id) ==
    LET hits == {n \in DOMAIN table : table[n].telegram_user_id = user_id}
    IN  IF hits = {} THEN 0 ELSE CHOOSE n \in hits : \A m \in hits : n <= m

\* mutant: a row of the user is enough, whatever its status
is_approved_user_AnyRow(u, table) ==
    \/ is_admin(u)
    \/ find_by_user_id(table, u.id) # 0

\* is_approved_user (main.py 185-198), the spreadsheet being configured
is_approved_user(u, table) ==
    \/ is_admin(u)
    \/ /\ find_by_user_id(table, u.id) # 0
       /\ table[find_by_user_id(table, u.id)].status = "approved"

\* mutant: the row of the user is set to pending on every /start
StatusAfterUpsert_AlwaysPending(status) == "pending"

\* 'if row.status == "": update_cell(row_idx, 4, "pending")'
\* (users_repo.py 66-67): the status of a row that upsert_pending found
StatusAfterUpsert(status) == IF status = "" THEN "pending" ELSE status

\* mutant: a row is appended whether the user has one or not
upsert_pending_AlwaysAppends(table, user_id, username, chat_id) ==
    Append(table, UserRow(user_id, username, chat_id, "pending"))

\* UsersRepo.upsert_pending (users_repo.py 60-79)
upsert_pending(table, user_id, username, chat_id) ==
    LET n == find_by_user_id(table, user_id)
    IN  IF n # 0
        THEN [table EXCEPT ![n] = UserRow(user_id, username, chat_id,
                                          StatusAfterUpsert(table[n].status))]
        ELSE Append(table, UserRow(user_id, username, chat_id, "pending"))

\* mutant: the cell status of every row is written once the user is found
SetStatus_AllRows(table, user_id, status) ==
    IF find_by_user_id(table, user_id) = 0 THEN table
    ELSE [n \in DOMAIN table |-> [table[n] EXCEPT !.status = status]]

\* the cell status of the first row of the user is written
SetStatus(table, user_id, status) ==
    LET n == find_by_user_id(table, user_id)
    IN  IF n = 0 THEN table ELSE [table EXCEPT ![n].status = status]

\* UsersRepo.approve (users_repo.py 81-89)
approve_user(table, user_id) == SetStatus(table, user_id, "approved")

\* UsersRepo.reject (users_repo.py 91-99)
reject_user(table, user_id) == SetStatus(table, user_id, "rejected")

\* UsersRepo.delete_user (users_repo.py 169-176)
delete_user(table, user_id) ==
    LET n == find_by_user_id(table, user_id)
    IN  IF n = 0 THEN table
        ELSE [m \in 1..(Len(table) - 1) |-> IF m < n THEN table[m] ELSE table[m + 1]]

\* the senders of the updates: an admin by id without username, a user,
\* an admin by username
Senders == {Sender(1, None), Sender(2, Some("ann")), Sender(3, Some("Boss"))}

\* where one admin and one other sender are enough
TwoSenders == {Sender(1, None), Sender(2, None)}

\* str(user.telegram_user_id) on the ids that are enumerated
Str(uid) ==
    CASE uid = 1 -> "1"
      [] uid = 2 -> "2"
      [] uid = 3 -> "3"
      [] OTHER -> "n"

\* user.telegram_username or str(user.telegram_user_id), as a list of texts
NameOf(u) ==
    IF u.telegram_username # None THEN <<u.telegram_username[1]>> ELSE <<Str(u.telegram_user_id)>>

Recipient(chat_id, name) == [chat_id |-> chat_id, name |-> name]

\* the set recipients of send_daily_reminders (main.py 58-68)
DailyRecipients(table) ==
    {Recipient(list_approved(table)[n].telegram_chat_id[1], NameOf(list_approved(table)[n])) :
        n \in {m \in DOMAIN list_approved(table) :
                  list_approved(table)[m].telegram_chat_id # None}}
    \cup {Recipient(list_all(table)[n].telegram_chat_id[1], <<"Admin: ">> \o NameOf(list_all(table)[n])) :
             n \in {m \in DOMAIN list_all(table) :
                       /\ list_all(table)[m].telegram_user_id \in AdminUserIds
                       /\ list_all(table)[m].telegram_chat_id # None}}

\* the orders in which a loop can iterate over the set S
Orderings(S) ==
    {order \in [1..Cardinality(S) -> S] :
        \A i, j \in 1..Cardinality(S) : i # j => order[i] # order[j]}

\* the users sendtoday sends to (main.py 702-705), in the order of the tab
SendTodayBatch(table) ==
    LET HasChat(u) == u.telegram_chat_id # None
        with_chat == SelectSeq(list_approved(table), HasChat)
    IN  [n \in DOMAIN with_chat |-> Recipient(with_chat[n].telegram_chat_id[1], NameOf(with_chat[n]))]

\* the data tabs read by the broadcasts that are enumerated
BroadcastSheets == {<<>>} \cup {<<r>> : r \in SheetRows}

\* the plate arguments of exclude_vehicle and restore_vehicle
ArgPlates == Plates \cup {"p1"}

\* the excluded_by arguments
Admins == {"boss"}

\* dt.date.today(): the clock counts days from StartDay
TodayAt(t) == StartDay + t

NoRun ==
    /\ records' = <<>>
    /\ pos' = 1
    /\ buckets' = EmptyBuckets
    /\ result' = <<>>
    /\ today' = 0
    /\ upcoming' = <<>>
    /\ expired' = <<>>
    /\ text' = NoText

\* latest_by_plate_event(tuples) is called, compute_windows is not
Reconcile(tuples) ==
    /\ records' = tuples
    /\ pos' = Len(tuples) + 1
    /\ buckets' = FoldBuckets(EmptyBuckets, tuples)
    /\ result' = latest_by_plate_event(tuples)
    /\ today' = 0
    /\ upcoming' = <<>>
    /\ expired' = <<>>
    /\ text' = NoText

\* no broadcast is running
NoBroadcast ==
    /\ batch = <<>>
    /\ attempts = <<>>
    /\ sent_count = 0
    /\ error_count = 0

\* JSONStorage.__init__ (30-32): self.data is loaded from the file; the
\* Users tab has no rows
InitStore ==
    /\ disk \in InitFiles
    /\ vehicles = LoadData(disk)
    /\ users = <<>>
    /\ NoBroadcast
    /\ now = 0
    /\ tasks = NoTasks
    /\ running = 0
    /\ op = [name |-> "init", arg |-> ""]
    /\ raw = <<>>
    /\ ret = [ok |-> FALSE, msg |-> "none"]
    /\ removed = {}
    /\ doc_links_lookup = NoLookup
    /\ doc_links = NoLinks
    /\ sender = NoSender
    /\ records = <<>>
    /\ pos = 1
    /\ buckets = EmptyBuckets
    /\ result = <<>>
    /\ today = 0
    /\ upcoming = <<>>
    /\ expired = <<>>
    /\ text = NoText
    /\ pc = "idle"

\* the wall clock advances between two operations
Tick ==
    /\ pc = "idle"
    /\ now < MaxClock
    /\ now' = now + 1
    /\ UNCHANGED <<vehicles, disk, op, raw, ret, removed, doc_links_lookup, doc_links, sender, tasks, running>>
    /\ UNCHANGED runVars
    /\ UNCHANGED sendVars

\* the operation has returned: its arguments, locals and result are dropped
Return ==
    /\ pc = "returned"
    /\ pc' = "idle"
    /\ op' = [name |-> "init", arg |-> ""]
    /\ raw' = <<>>
    /\ ret' = [ok |-> FALSE, msg |-> "none"]
    /\ removed' = {}
    /\ doc_links_lookup' = NoLookup
    /\ doc_links' = NoLinks
    /\ sender' = NoSender
    /\ NoRun
    /\ batch' = <<>>
    /\ attempts' = <<>>
    /\ sent_count' = 0
    /\ error_count' = 0
    /\ UNCHANGED <<vehicles, disk, now, tasks, running, users>>

\* mutant: the handler of the exception resets the store it cannot refresh
SyncExcept_ResetsStore(msg) ==
    /\ ret' = [ok |-> FALSE, msg |-> msg]
    /\ removed' = {}
    /\ vehicles' = <<>>
    /\ UNCHANGED disk

\* the except clause of sync_from_google_sheets (data_sync.py 75-78): the
\* exception is turned into (False, message), nothing is written
SyncExcept(msg) ==
    /\ ret' = [ok |-> FALSE, msg |-> msg]
    /\ removed' = {}
    /\ UNCHANGED <<vehicles, disk>>

\* DataSync.sync_from_google_sheets (data_sync.py 22-78) with
\* JSONStorage.update_vehicle_data_enhanced and _save_data; the spreadsheet
\* is configured and the read returns one of tabs.  The backup to GitHub
\* changes nothing of the store.
sync_from_google_sheets(tabs) ==
    /\ pc = "idle"
    /\ pc' = "returned"
    /\ op' = [name |-> "sync", arg |-> ""]
    /\ sender' = NoSender
    /\ UNCHANGED <<now, tasks, running>>
    /\ UNCHANGED sendVars
    /\ \/ \* read_data_rows raises, caught at line 75
          /\ raw' = <<>>
          /\ NoRun
          /\ doc_links_lookup' = NoLookup
          /\ doc_links' = NoLinks
          /\ SyncExcept("read_failed")
       \/ \E rows \in tabs :
            LET raw_tuples == NormalizeRowsWithDocs(rows)
                upd == update_vehicle_data_enhanced(vehicles, raw_tuples, now)
            IN  /\ raw' = rows
                /\ Reconcile(TuplesOf(raw_tuples))
                /\ doc_links_lookup' = DocLinksLookup(raw_tuples)
                /\ doc_links' = NoLinks
                /\ IF upd.raised
                   THEN SyncExcept("sync_failed")
                   ELSE \E outcome \in SaveOutcomes :
                        /\ vehicles' = upd.vehicles
                        /\ removed' = upd.removed
                        /\ disk' = DiskAfterSave(outcome, upd.vehicles, disk)
                        /\ ret' = IF outcome = "saved"
                                  THEN [ok |-> TRUE, msg |-> "sync_completed"]
                                  ELSE [ok |-> FALSE, msg |-> "save_failed"]

SyncFromGoogleSheets == sync_from_google_sheets(Sheets)

\* mutant: no vehicle counts as excluded already
AlreadyExcluded_Never(vehicle) == FALSE

\* vehicles[plate].get("excluded", False) (data_sync.py 148)
AlreadyExcluded(vehicle) == vehicle.excluded

\* DataSync.exclude_vehicle (data_sync.py 140-155) with
\* JSONStorage.exclude_vehicle (json_storage.py 165-174)
ExcludeVehicle ==
    /\ pc = "idle"
    /\ pc' = "returned"
    /\ UNCHANGED sendVars
    /\ \E arg \in ArgPlates, excluded_by \in Admins :
        LET plate == Upper(arg)
        IN  /\ op' = [name |-> "exclude", arg |-> arg]
            /\ sender' = NoSender
            /\ NoRun
            /\ removed' = {}
            /\ doc_links_lookup' = NoLookup
            /\ doc_links' = NoLinks
            /\ UNCHANGED <<now, tasks, running, raw>>
            /\ IF plate \notin DOMAIN vehicles
               THEN /\ ret' = [ok |-> FALSE, msg |-> "not_found"]
                    /\ UNCHANGED <<vehicles, disk>>
               ELSE IF AlreadyExcluded(vehicles[plate])
               THEN /\ ret' = [ok |-> FALSE, msg |-> "already_excluded"]
                    /\ UNCHANGED <<vehicles, disk>>
               ELSE \E outcome \in SaveOutcomes :
                    /\ vehicles' = [vehicles EXCEPT
                                      ![plate] = ExcludedRecord(vehicles[plate], excluded_by, now)]
                    /\ disk' = DiskAfterSave(outcome, vehicles', disk)
                    /\ ret' = IF outcome = "saved"
                              THEN [ok |-> TRUE, msg |-> "excluded"]
                              ELSE [ok |-> FALSE, msg |-> "exclude_failed"]

\* JSONStorage.restore_vehicle (json_storage.py 176-185)
RestoreVehicle ==
    /\ pc = "idle"
    /\ pc' = "returned"
    /\ UNCHANGED sendVars
    /\ \E plate \in ArgPlates :
        /\ op' = [name |-> "restore", arg |-> plate]
        /\ sender' = NoSender
        /\ NoRun
        /\ removed' = {}
        /\ doc_links_lookup' = NoLookup
        /\ doc_links' = NoLinks
        /\ UNCHANGED <<now, tasks, running, raw>>
        /\ IF plate \notin DOMAIN vehicles
           THEN /\ ret' = [ok |-> FALSE, msg |-> "not_found"]
                /\ UNCHANGED <<vehicles, disk>>
           ELSE \E outcome \in SaveOutcomes :
                /\ vehicles' = [vehicles EXCEPT ![plate] = RestoredRecord(vehicles[plate])]
                /\ disk' = DiskAfterSave(outcome, vehicles', disk)
                /\ ret' = [ok |-> (outcome = "saved"), msg |-> "restored"]

\* the lines every summary handler of main.py runs once it has the rows:
\* normalise, latest_by_plate_event, compute_windows(dt.date.today(), latest)
Summarise(rows) ==
    /\ raw' = rows
    /\ records' = NormalizeRows(rows)
    /\ pos' = Len(records') + 1
    /\ buckets' = FoldBuckets(EmptyBuckets, records')
    /\ result' = latest_by_plate_event(records')
    /\ today' = TodayAt(now)
    /\ upcoming' = compute_windows(today', result')[1]
    /\ expired' = compute_windows(today', result')[2]
    /\ text' = format_summary_lt(upcoming', expired')
    /\ ret' = [ok |-> TRUE, msg |-> "summary"]

\* a handler that ends before compute_windows is called
NoSummary(msg) ==
    /\ raw' = <<>>
    /\ NoRun
    /\ ret' = [ok |-> FALSE, msg |-> msg]

\* send_daily_reminders (main.py 17-79) up to the loop that sends: the
\* summary, the recipients and the counters.  An exception of the read is
\* caught at line 96 and ends the run; without recipients the run returns
\* at line 72.  The set recipients is iterated in an arbitrary order.
send_daily_reminders(tabs) ==
    /\ pc = "idle"
    /\ op' = [name |-> "daily", arg |-> ""]
    /\ sender' = NoSender
    /\ UNCHANGED <<vehicles, disk, now, tasks, running, removed, doc_links_lookup, doc_links, users>>
    /\ attempts' = <<>>
    /\ sent_count' = 0
    /\ error_count' = 0
    /\ \/ /\ NoSummary("read_failed")
          /\ batch' = <<>>
          /\ pc' = "returned"
       \/ \E rows \in tabs, order \in Orderings(DailyRecipients(users)) :
            /\ Summarise(rows)
            /\ batch' = order
            /\ pc' = IF order = <<>> THEN "returned" ELSE "sending"

SendDailyReminders == send_daily_reminders(Sheets)

\* info_cmd (main.py 241-268)
info_cmd(tabs, senders) ==
    /\ pc = "idle"
    /\ pc' = "returned"
    /\ op' = [name |-> "info", arg |-> ""]
    /\ UNCHANGED <<vehicles, disk, now, tasks, running, removed, doc_links_lookup, doc_links>>
    /\ UNCHANGED sendVars
    /\ \E u \in senders :
        /\ sender' = u
        /\ IF ~is_approved_user(u, users) THEN NoSummary("denied")
           ELSE \/ NoSummary("read_failed")
                \/ \E rows \in tabs : Summarise(rows)

InfoCmd == info_cmd(Sheets, TwoSenders)

\* dryrun (main.py 201-228)
dryrun(tabs, senders) ==
    /\ pc = "idle"
    /\ pc' = "returned"
    /\ op' = [name |-> "dryrun", arg |-> ""]
    /\ UNCHANGED <<vehicles, disk, now, tasks, running, removed, doc_links_lookup, doc_links>>
    /\ UNCHANGED sendVars
    /\ \E u \in senders :
        /\ sender' = u
        /\ IF ~is_admin(u) THEN NoSummary("denied")
           ELSE \/ NoSummary("read_failed")
                \/ \E rows \in tabs : Summarise(rows)

DryRun == dryrun(Sheets, TwoSenders)

\* sendtoday (main.py 673-703) up to the loop that sends: the summary and
\* the approved users; without an approved user that has a chat id
\* nothing is sent and the reply of line 711 reports 0
sendtoday(tabs, senders) ==
    /\ pc = "idle"
    /\ op' = [name |-> "sendtoday", arg |-> ""]
    /\ UNCHANGED <<vehicles, disk, now, tasks, running, removed, doc_links_lookup, doc_links, users>>
    /\ attempts' = <<>>
    /\ sent_count' = 0
    /\ error_count' = 0
    /\ \E u \in senders :
        /\ sender' = u
        /\ IF ~is_admin(u)
           THEN NoSummary("denied") /\ batch' = <<>> /\ pc' = "returned"
           ELSE \/ NoSummary("read_failed") /\ batch' = <<>> /\ pc' = "returned"
                \/ \E rows \in tabs :
                     /\ Summarise(rows)
                     /\ batch' = SendTodayBatch(users)
                     /\ pc' = IF batch' = <<>> THEN "returned" ELSE "sending"

SendToday == sendtoday(Sheets, TwoSenders)

\* sarasas (main.py 273-309): the list of the plates of the data tab
sarasas(tabs, senders) ==
    /\ pc = "idle"
    /\ pc' = "returned"
    /\ op' = [name |-> "sarasas", arg |-> ""]
    /\ UNCHANGED <<vehicles, disk, now, tasks, running, removed, doc_links_lookup, doc_links>>
    /\ UNCHANGED sendVars
    /\ \E u \in senders :
        /\ sender' = u
        /\ IF ~is_approved_user(u, users) THEN NoSummary("denied")
           ELSE \/ NoSummary("read_failed")
                \/ \E rows \in tabs :
                     /\ raw' = rows
                     /\ Reconcile(NormalizeRowsUpper(rows))
                     /\ ret' = IF result' = <<>> THEN [ok |-> FALSE, msg |-> "empty"]
                                                 ELSE [ok |-> TRUE, msg |-> "list"]

\* "raw_r.plate and raw_r.plate.strip().upper() == plate and
\* normalize_event(raw_r.event_raw) == 'registration_certificate'"
\* (main.py 361-362, 443-444, 590-591)
IsCertificateRow(raw_r, plate) ==
    /\ raw_r.plate # ""
    /\ Upper(Strip(raw_r.plate)) = plate
    /\ normalize_event(raw_r.event_raw) = Some("registration_certificate")

\* the loop "for raw_r in raw" with its break (main.py 359-367, 441-449,
\* 588-596): the links of the first row of the plate's certificate
CertificateLinks(rows, plate) ==
    LET hits == {n \in DOMAIN rows : IsCertificateRow(rows[n], plate)}
    IN  IF hits = {} THEN NoLinks
        ELSE DocLinks(rows[CHOOSE n \in hits : \A m \in hits : n <= m])

\* a handler of a plate that ends before its details are built
NoDetails(msg) ==
    /\ NoSummary(msg)
    /\ doc_links' = NoLinks

\* the lines cmd_id, plate_shortcut and the plate callback of on_cb share
\* once the sender has passed is_approved_user: the rows are read and
\* reconciled, the events of the plate are the reply
PlateDetails(tabs, plate) ==
    \/ NoDetails("read_failed")
    \/ \E rows \in tabs :
         /\ raw' = rows
         /\ Reconcile(NormalizeRowsUpper(rows))
         /\ ret' = IF \E n \in DOMAIN result' : result'[n].plate = plate
                   THEN [ok |-> TRUE, msg |-> "details"]
                   ELSE [ok |-> FALSE, msg |-> "not_found"]
         /\ doc_links' = IF \E n \in DOMAIN result' :
                                /\ result'[n].plate = plate
                                /\ result'[n].event_type = "registration_certificate"
                         THEN CertificateLinks(rows, plate)
                         ELSE NoLinks

\* cmd_id (main.py 313-378): the details of the plate given as argument
cmd_id(tabs, senders) ==
    /\ pc = "idle"
    /\ pc' = "returned"
    /\ UNCHANGED <<vehicles, disk, now, tasks, running, removed, doc_links_lookup>>
    /\ UNCHANGED sendVars
    /\ \E u \in senders, arg \in ArgPlates :
        /\ op' = [name |-> "id", arg |-> arg]
        /\ sender' = u
        /\ IF ~is_approved_user(u, users) THEN NoDetails("denied")
           ELSE PlateDetails(tabs, Upper(Strip(arg)))

NextStore ==
    \/ Tick
    \/ Return
    \/ SyncFromGoogleSheets
    \/ ExcludeVehicle
    \/ RestoreVehicle
    \/ SendDailyReminders
    \/ InfoCmd
    \/ DryRun
    \/ SendToday

SpecStore == InitStore /\ [][NextStore]_vars

\* every caller of normalize_event reads a data tab and normalises its rows
NextRows ==
    \/ Return
    \/ sync_from_google_sheets(DataTabs)
    \/ send_daily_reminders(DataTabs)
    \/ info_cmd(DataTabs, TwoSenders)
    \/ dryrun(DataTabs, TwoSenders)
    \/ sendtoday(DataTabs, TwoSenders)
    \/ sarasas(DataTabs, TwoSenders)
    \/ cmd_id(DataTabs, TwoSenders)

SpecRows == InitStore /\ [][NextRows]_vars

----------------------------------------------------------------------------
(* The broadcasts of main.py: the daily run and /sendtoday *)

\* mutant: the first failed send ends the loop
SendMessage_AbortOnFailure ==
    /\ pc = "sending"
    /\ Len(attempts) < Len(batch)
    /\ \E delivered \in BOOLEAN :
        /\ attempts' = Append(attempts, [chat_id |-> batch[Len(attempts) + 1].chat_id,
                                         ok |-> delivered])
        /\ sent_count' = IF delivered THEN sent_count + 1 ELSE sent_count
        /\ error_count' = IF ~delivered /\ op.name = "daily" THEN error_count + 1
                                                              ELSE error_count
        /\ pc' = IF delivered THEN pc ELSE "returned"
    /\ UNCHANGED <<vehicles, disk, now, tasks, running, op, raw, ret, removed, doc_links_lookup, doc_links, sender, users, batch>>
    /\ UNCHANGED <<records, pos, buckets, result, today, upcoming, expired, text>>

\* one iteration of the loop that sends (main.py 81-92 and 704-710):
\* send_message returns or raises; the daily run counts both outcomes,
\* sendtoday counts the sends that returned and passes on an exception
SendMessage ==
    /\ pc = "sending"
    /\ Len(attempts) < Len(batch)
    /\ \E delivered \in BOOLEAN :
        /\ attempts' = Append(attempts, [chat_id |-> batch[Len(attempts) + 1].chat_id,
                                         ok |-> delivered])
        /\ sent_count' = IF delivered THEN sent_count + 1 ELSE sent_count
        /\ error_count' = IF ~delivered /\ op.name = "daily" THEN error_count + 1
                                                              ELSE error_count
    /\ UNCHANGED <<vehicles, disk, now, tasks, running, op, raw, ret, removed, doc_links_lookup, doc_links, sender, users, batch>>
    /\ UNCHANGED runVars

\* the loop is over: the daily run prints its counters (main.py 94),
\* sendtoday replies with sent (main.py 711)
EndBroadcast ==
    /\ pc = "sending"
    /\ Len(attempts) = Len(batch)
    /\ pc' = "returned"
    /\ ret' = [ok |-> TRUE, msg |-> "sent"]
    /\ UNCHANGED <<records, pos, buckets, result, today, upcoming, expired, text>>
    /\ UNCHANGED <<vehicles, disk, now, tasks, running, op, raw, removed, doc_links_lookup, doc_links, sender>>
    /\ UNCHANGED sendVars

\* the bot has started with a snapshot file and a Users tab
InitBroadcast ==
    /\ disk = [state |-> "ok", vehicles |-> [plate \in Plates |-> StoredActive]]
    /\ vehicles = LoadData(disk)
    /\ users \in UserTables
    /\ NoBroadcast
    /\ now = 0
    /\ tasks = NoTasks
    /\ running = 0
    /\ op = [name |-> "init", arg |-> ""]
    /\ raw = <<>>
    /\ ret = [ok |-> FALSE, msg |-> "none"]
    /\ removed = {}
    /\ doc_links_lookup = NoLookup
    /\ doc_links = NoLinks
    /\ sender = NoSender
    /\ records = <<>>
    /\ pos = 1
    /\ buckets = EmptyBuckets
    /\ result = <<>>
    /\ today = 0
    /\ upcoming = <<>>
    /\ expired = <<>>
    /\ text = NoText
    /\ pc = "idle"

NextBroadcast ==
    \/ send_daily_reminders(BroadcastSheets)
    \/ sendtoday(BroadcastSheets, TwoSenders)
    \/ SendMessage
    \/ EndBroadcast
    \/ Return

SpecBroadcast == InitBroadcast /\ [][NextBroadcast]_vars

\* a broadcast that has started goes on: every awaited send_message
\* returns or raises, and nothing else is awaited between two iterations
FairBroadcast == SpecBroadcast /\ WF_vars(SendMessage) /\ WF_vars(EndBroadcast)

----------------------------------------------------------------------------
(* The commands and callback queries of main.py with their senders *)

\* a handler that replies without reading the data tab
Replied(msg) ==
    /\ raw' = <<>>
    /\ NoRun
    /\ ret' = [ok |-> TRUE, msg |-> msg]

\* the reply of start to a sender whose row is found or not (main.py 136-152)
StartReply(table, user_id) ==
    LET n == find_by_user_id(table, user_id)
    IN  IF n = 0 THEN "registered"
        ELSE IF table[n].status = "approved" THEN "already_approved"
        ELSE IF table[n].status = "pending" THEN "already_pending"
        ELSE "registered"

\* start (main.py 127-158): every sender is written to the Users tab as
\* pending, or the row it has gets its username and chat id; an exception
\* of the spreadsheet is caught at line 156
start(senders) ==
    /\ pc = "idle"
    /\ pc' = "returned"
    /\ op' = [name |-> "start", arg |-> ""]
    /\ UNCHANGED <<vehicles, disk, now, tasks, running, removed, doc_links_lookup, doc_links>>
    /\ UNCHANGED <<batch, attempts, sent_count, error_count>>
    /\ \E u \in senders :
        /\ sender' = u
        /\ \/ /\ UNCHANGED users
              /\ NoSummary("sheet_failed")
           \/ /\ users' = upsert_pending(users, u.id, u.username, Some(ChatOf(u.id)))
              /\ Replied(StartReply(users, u.id))

\* pending (main.py 462-493): the pending users with their buttons
pending(senders) ==
    /\ pc = "idle"
    /\ pc' = "returned"
    /\ op' = [name |-> "pending", arg |-> ""]
    /\ UNCHANGED <<vehicles, disk, now, tasks, running, removed, doc_links_lookup, doc_links>>
    /\ UNCHANGED sendVars
    /\ \E u \in senders :
        /\ sender' = u
        /\ IF ~is_admin(u) THEN NoSummary("denied")
           ELSE \/ NoSummary("sheet_failed")
                \/ Replied(IF list_pending(users) = <<>> THEN "none_pending"
                                                         ELSE "pending_list")

\* the user ids given to /approve and carried by the buttons
TargetIds == {u.id : u \in Senders}

\* approve (main.py 497-513): /approve <user_id>
approve(senders) ==
    /\ pc = "idle"
    /\ pc' = "returned"
    /\ UNCHANGED <<vehicles, disk, now, tasks, running, removed, doc_links_lookup, doc_links>>
    /\ UNCHANGED <<batch, attempts, sent_count, error_count>>
    /\ \E u \in senders, uid \in TargetIds :
        /\ op' = [name |-> "approve", arg |-> Str(uid)]
        /\ sender' = u
        /\ IF ~is_admin(u) THEN UNCHANGED users /\ NoSummary("denied")
           ELSE \/ UNCHANGED users /\ NoSummary("sheet_failed")
                \/ /\ users' = approve_user(users, uid)
                   /\ Replied(IF find_by_user_id(users, uid) # 0 THEN "approved"
                                                                 ELSE "user_not_found")

\* users_cmd (main.py 517-536): all the users with their buttons
users_cmd(senders) ==
    /\ pc = "idle"
    /\ pc' = "returned"
    /\ op' = [name |-> "users", arg |-> ""]
    /\ UNCHANGED <<vehicles, disk, now, tasks, running, removed, doc_links_lookup, doc_links>>
    /\ UNCHANGED sendVars
    /\ \E u \in senders :
        /\ sender' = u
        /\ IF ~is_admin(u) THEN NoSummary("denied")
           ELSE \/ NoSummary("sheet_failed")
                \/ Replied(IF list_all(users) = <<>> THEN "no_users" ELSE "users_list")

\* the commands plate_shortcut receives: plates, a known command, a text
\* that is no plate
ShortcutCmds == ArgPlates \cup {"info", "a?"}

\* plate_shortcut (main.py 383-460): /PLATE
plate_shortcut(tabs, senders) ==
    /\ pc = "idle"
    /\ pc' = "returned"
    /\ UNCHANGED <<vehicles, disk, now, tasks, running, removed, doc_links_lookup>>
    /\ UNCHANGED sendVars
    /\ \E u \in senders, cmd \in ShortcutCmds :
        /\ op' = [name |-> "plate", arg |-> cmd]
        /\ sender' = u
        /\ IF cmd = "info" THEN NoDetails("ignored")
           ELSE IF cmd \notin ArgPlates THEN NoDetails("unknown_command")
           ELSE IF ~is_approved_user(u, users) THEN NoDetails("denied")
           ELSE PlateDetails(tabs, Upper(cmd))

\* on_cb (main.py 540-611): the callback query of a plate button
on_cb_plate(tabs, senders) ==
    /\ UNCHANGED sendVars
    /\ \E u \in senders, arg \in ArgPlates :
        /\ op' = [name |-> "cb_plate", arg |-> arg]
        /\ sender' = u
        /\ IF ~is_approved_user(u, users) THEN NoDetails("denied")
           ELSE PlateDetails(tabs, Upper(Strip(arg)))

\* on_cb (main.py 613-669): the callback query of a button approve,
\* reject or deluser; the message to the user that is approved or rejected
\* is sent to the chat id of its row, its failure is passed over
on_cb_admin(senders) ==
    /\ UNCHANGED <<batch, attempts, sent_count, error_count, doc_links>>
    /\ \E u \in senders, action \in {"approve", "reject", "deluser"}, uid \in TargetIds :
        /\ op' = [name |-> "cb_" \o action, arg |-> Str(uid)]
        /\ sender' = u
        /\ IF ~is_admin(u) THEN UNCHANGED users /\ NoSummary("denied")
           ELSE \/ UNCHANGED users /\ NoSummary("sheet_failed")
                \/ /\ users' = CASE action = "approve" -> approve_user(users, uid)
                                 [] action = "reject" -> reject_user(users, uid)
                                 [] OTHER -> delete_user(users, uid)
                   /\ Replied(IF find_by_user_id(users, uid) # 0 THEN action
                                                                 ELSE "user_not_found")

\* on_cb (main.py 540-669)
on_cb(tabs, senders) ==
    /\ pc = "idle"
    /\ pc' = "returned"
    /\ UNCHANGED <<vehicles, disk, now, tasks, running, removed, doc_links_lookup>>
    /\ \/ on_cb_plate(tabs, senders)
       \/ on_cb_admin(senders)

\* the bot has started with a snapshot file, the Users tab has no rows
InitAuth ==
    /\ disk = [state |-> "ok", vehicles |-> [plate \in Plates |-> StoredActive]]
    /\ vehicles = LoadData(disk)
    /\ users = <<>>
    /\ NoBroadcast
    /\ now = 0
    /\ tasks = NoTasks
    /\ running = 0
    /\ op = [name |-> "init", arg |-> ""]
    /\ raw = <<>>
    /\ ret = [ok |-> FALSE, msg |-> "none"]
    /\ removed = {}
    /\ doc_links_lookup = NoLookup
    /\ doc_links = NoLinks
    /\ sender = NoSender
    /\ records = <<>>
    /\ pos = 1
    /\ buckets = EmptyBuckets
    /\ result = <<>>
    /\ today = 0
    /\ upcoming = <<>>
    /\ expired = <<>>
    /\ text = NoText
    /\ pc = "idle"

NextAuth ==
    \/ start(Senders)
    \/ pending(Senders)
    \/ approve(Senders)
    \/ users_cmd(Senders)
    \/ on_cb(BroadcastSheets, Senders)
    \/ plate_shortcut(BroadcastSheets, Senders)
    \/ info_cmd(BroadcastSheets, Senders)
    \/ sarasas(BroadcastSheets, Senders)
    \/ cmd_id(BroadcastSheets, Senders)
    \/ dryrun(BroadcastSheets, Senders)
    \/ sendtoday(BroadcastSheets, Senders)
    \/ SendMessage
    \/ EndBroadcast
    \/ Return

SpecAuth == InitAuth /\ [][NextAuth]_vars

----------------------------------------------------------------------------
(* The details of a plate: /id, /PLATE and the plate button *)

\* rows of registration certificates a read can return: two rows of P1 that
\* differ by expiry, timestamp and links, a row of P2, and an insurance row
CertificateRows ==
    {RawRow("P1", "Registracijos liudijimas", "01/01/0001", Some("old"), None,
            Some("01/01/0001 00:00:01")),
     RawRow("P1", "Registracijos liudijimas", "01/07/0001", Some("new"), Some("new2"),
            Some("01/01/0001 00:00:02")),
     RawRow("P2", "Registracijos liudijimas", "01/01/0001", None, None, None),
     RawRow("P1", "CA draudimas iki", "01/07/0001", Some("doc"), None,
            Some("01/01/0001 00:00:01"))}

CertificateTabs == SeqsUpTo(CertificateRows, MaxRows)

NextDetails ==
    \/ Return
    \/ cmd_id(CertificateTabs, TwoSenders)
    \/ plate_shortcut(CertificateTabs, TwoSenders)
    \/ on_cb(CertificateTabs, TwoSenders)

SpecDetails == InitStore /\ [][NextDetails]_vars

----------------------------------------------------------------------------
(* Two invocations of sync_from_google_sheets on one event loop *)

\* the invocations
Tasks == {1, 2}

\* an invocation: where it is, what read_data_rows returned to it (None
\* before the read and when the read raised), how _save_data ended, and
\* what it returned
SyncTask(at, read, outcome, returned) ==
    [at |-> at, read |-> read, outcome |-> outcome, returned |-> returned]

\* the snapshot file when the invocations are created: P1 active, P2 excluded
SyncBaseFile ==
    [state |-> "ok",
     vehicles |-> [plate \in Plates |->
                     IF plate = "P2" THEN ExcludedRecord(StoredActive, "boss", 0)
                                     ELSE StoredActive]]

\* mutant: the read of the spreadsheet is awaited and suspends the coroutine
Suspends_AtRead(step) == step = "read"

\* the steps after which the coroutine gives the event loop to another
\* task.  sync_from_google_sheets awaits once, _backup_to_github at line
\* 69, after the save; that coroutine awaits nothing (80-103) and ends
\* without suspending.  The read, the merge and the save are plain calls.
Suspends(step) == step \in {}

\* the event loop runs the invocation t: it is the running one, or none is
\* running and the loop takes it from its queue
Scheduled(t) ==
    /\ pc = "idle"
    /\ t \in DOMAIN tasks
    /\ running \in {0, t}

\* who holds the event loop after a step of t that ends at the position at
Yield(t, step, at) == IF at = "done" \/ Suspends(step) THEN 0 ELSE t

\* data_sync.py 34-35: SheetsClient(...) and read_data_rows
SyncRead(t) ==
    /\ Scheduled(t)
    /\ tasks[t].at = "read"
    /\ \/ /\ tasks' = [tasks EXCEPT ![t] = SyncTask("done", None, "none", "read_failed")]
          /\ running' = Yield(t, "read", "done")
       \/ \E rows \in BroadcastSheets :
            /\ tasks' = [tasks EXCEPT ![t] = SyncTask("merge", Some(rows), "none", "none")]
            /\ running' = Yield(t, "read", "merge")
    /\ UNCHANGED <<vehicles, disk, now, op, raw, ret, removed, doc_links_lookup, doc_links, sender>>
    /\ UNCHANGED runVars
    /\ UNCHANGED sendVars

\* data_sync.py 38-61 and json_storage.py 84-150: the rows are normalised
\* and merged into self.data, the shared dict of the one DataSync object
SyncMerge(t) ==
    /\ Scheduled(t)
    /\ tasks[t].at = "merge"
    /\ LET upd == update_vehicle_data_enhanced(
                      vehicles, NormalizeRowsWithDocs(tasks[t].read[1]), now)
       IN  IF upd.raised
           THEN /\ tasks' = [tasks EXCEPT ![t].at = "done", ![t].returned = "sync_failed"]
                /\ running' = Yield(t, "merge", "done")
                /\ UNCHANGED vehicles
           ELSE /\ tasks' = [tasks EXCEPT ![t].at = "persist"]
                /\ running' = Yield(t, "merge", "persist")
                /\ vehicles' = upd.vehicles
    /\ UNCHANGED <<disk, now, op, raw, ret, removed, doc_links_lookup, doc_links, sender>>
    /\ UNCHANGED runVars
    /\ UNCHANGED sendVars

\* json_storage.py 151: _save_data writes self.data as it is now
SyncPersist(t) ==
    /\ Scheduled(t)
    /\ tasks[t].at = "persist"
    /\ \E outcome \in SaveOutcomes :
        /\ disk' = DiskAfterSave(outcome, vehicles, disk)
        /\ IF outcome = "saved"
           THEN /\ tasks' = [tasks EXCEPT ![t].at = "backup", ![t].outcome = outcome]
                /\ running' = Yield(t, "persist", "backup")
           ELSE /\ tasks' = [tasks EXCEPT ![t].at = "done", ![t].outcome = outcome,
                                          ![t].returned = "save_failed"]
                /\ running' = Yield(t, "persist", "done")
    /\ UNCHANGED <<vehicles, now, op, raw, ret, removed, doc_links_lookup, doc_links, sender>>
    /\ UNCHANGED runVars
    /\ UNCHANGED sendVars

\* data_sync.py 69-71: await self._backup_to_github(), return True
SyncBackup(t) ==
    /\ Scheduled(t)
    /\ tasks[t].at = "backup"
    /\ tasks' = [tasks EXCEPT ![t].at = "done", ![t].returned = "sync_completed"]
    /\ running' = Yield(t, "backup", "done")
    /\ UNCHANGED <<vehicles, disk, now, op, raw, ret, removed, doc_links_lookup, doc_links, sender>>
    /\ UNCHANGED runVars
    /\ UNCHANGED sendVars

\* two invocations have been created on the event loop, none has started
InitConcurrent ==
    /\ disk = SyncBaseFile
    /\ vehicles = LoadData(disk)
    /\ users = <<>>
    /\ NoBroadcast
    /\ now = 0
    /\ tasks = [t \in Tasks |-> SyncTask("read", None, "none", "none")]
    /\ running = 0
    /\ op = [name |-> "init", arg |-> ""]
    /\ raw = <<>>
    /\ ret = [ok |-> FALSE, msg |-> "none"]
    /\ removed = {}
    /\ doc_links_lookup = NoLookup
    /\ doc_links = NoLinks
    /\ sender = NoSender
    /\ records = <<>>
    /\ pos = 1
    /\ buckets = EmptyBuckets
    /\ result = <<>>
    /\ today = 0
    /\ upcoming = <<>>
    /\ expired = <<>>
    /\ text = NoText
    /\ pc = "idle"

NextConcurrent ==
    \E t \in Tasks : SyncRead(t) \/ SyncMerge(t) \/ SyncPersist(t) \/ SyncBackup(t)

SpecConcurrent == InitConcurrent /\ [][NextConcurrent]_vars

----------------------------------------------------------------------------
(* format_summary_lt on its own *)

\* the records of the two lists given to format_summary_lt: two dates,
\* an absent date, two plates, two event types
SummaryRecords ==
    {DeadlineRecord("P1", "insurance", Some(DateLate)),
     DeadlineRecord("P1", "inspection", Some(DateLate)),
     DeadlineRecord("P2", "insurance", Some(DateMin)),
     DeadlineRecord("P1", "insurance", None)}

\* the two arguments of format_summary_lt are given
InitFormat ==
    /\ upcoming \in SeqsUpTo(SummaryRecords, MaxSection)
    /\ expired \in SeqsUpTo(SummaryRecords, MaxSection)
    /\ text = NoText
    /\ pc = "format"
    /\ records = <<>>
    /\ pos = 1
    /\ buckets = EmptyBuckets
    /\ result = <<>>
    /\ today = 0
    /\ vehicles = <<>>
    /\ disk = [state |-> "absent", vehicles |-> <<>>]
    /\ now = 0
    /\ tasks = NoTasks
    /\ running = 0
    /\ op = [name |-> "summary", arg |-> ""]
    /\ raw = <<>>
    /\ ret = [ok |-> FALSE, msg |-> "none"]
    /\ removed = {}
    /\ doc_links_lookup = NoLookup
    /\ doc_links = NoLinks
    /\ sender = NoSender
    /\ users = <<>>
    /\ NoBroadcast

\* data_model.py 74-91: format_summary_lt(upcoming, expired)
FormatSummary ==
    /\ pc = "format"
    /\ text' = format_summary_lt(upcoming, expired)
    /\ pc' = "formatted"
    /\ UNCHANGED <<records, pos, buckets, result, today, upcoming, expired>>
    /\ UNCHANGED storeVars
    /\ UNCHANGED sendVars

NextFormat == FormatSummary

SpecFormat == InitFormat /\ [][NextFormat]_vars

----------------------------------------------------------------------------
(* Properties of the reconciliation and classification run *)

KeyOf(rec) == <<rec[1], rec[2]>>

KeysOf(recs) == {KeyOf(recs[n]) : n \in DOMAIN recs}

Permuted(recs, p) == [n \in DOMAIN recs |-> recs[p[n]]]

FoldDone == pc \in {"windows", "done"}

\* the observations of key k among the first n elements of records
SeenOf(k, n) == {m \in 1..n : KeyOf(records[m]) = k}

MaxOf(S) == CHOOSE x \in S : \A y \in S : y <= x

Occurrences(list, r) == Cardinality({n \in DOMAIN list : list[n] = r})

\* C1: the winner (expiry, observed_at) kept for every key is the same for
\* every permutation of the input sequence, also when absent expiries and
\* the minimum date are mixed.
C1_OrderIndependent ==
    FoldDone =>
        \A p \in Permutations(DOMAIN records) :
            FoldBuckets(EmptyBuckets, Permuted(records, p)).val = buckets.val

\* C2: the returned list holds exactly one DeadlineRecord for every
\* (plate, event_type) pair of the input and none for any other pair.
C2_OneRecordPerKey ==
    FoldDone =>
        /\ \A k \in KeysOf(records) :
              Cardinality({n \in DOMAIN result :
                  <<result[n].plate, result[n].event_type>> = k}) = 1
        /\ \A n \in DOMAIN result :
              <<result[n].plate, result[n].event_type>> \in KeysOf(records)

C2_Witness ==
    /\ FoldDone
    /\ Len(records) = 3
    /\ Len(result) = 2

\* C3 (state part): the kept expiry of every key is the greatest expiry seen
\* for the key, None ranked as the minimum date, and it is None when every
\* observation of the key has no expiry.
C3_GreatestSoFar ==
    \A k \in DOMAIN buckets.val :
        LET seen == SeenOf(k, pos - 1)
        IN  /\ seen # {}
            /\ OrDateMin(buckets.val[k][1]) = MaxOf({OrDateMin(records[m][3]) : m \in seen})
            /\ (\A m \in seen : records[m][3] = None) => buckets.val[k][1] = None

\* C3 (step part): an observation without expiry never replaces a kept
\* winner that has a known date.
C3_AbsentNeverReplaces ==
    (/\ pc = "fold"
     /\ pos <= Len(records)
     /\ records[pos][3] = None
     /\ KeyOf(records[pos]) \in DOMAIN buckets.val
     /\ buckets.val[KeyOf(records[pos])][1] # None)
        => buckets'.val[KeyOf(records[pos])] = buckets.val[KeyOf(records[pos])]

\* C3: the winner's expiry is the greatest expiry of the key's observations
\* with an absent expiry ranked as the minimum date; an absent expiry never
\* replaces a known date; the winner's expiry is absent when all are absent.
C3_GreatestExpiryWins == []C3_GreatestSoFar /\ [][C3_AbsentNeverReplaces]_vars

C3_Witness ==
    /\ pos = 4
    /\ KeyOf(records[1]) = KeyOf(records[2])
    /\ KeyOf(records[3]) = KeyOf(records[2])
    /\ records[1][3] = Some(DateMin)
    /\ records[2][3] = None
    /\ records[3][3] = Some(DateLate)
    /\ buckets.val[KeyOf(records[1])][1] = Some(DateLate)

\* C4: among the observations of a key that carry the winning expiry the
\* winner has the latest observed_at; a present observed_at beats an absent
\* one and the winner's observed_at is absent only if all of them are absent.
C4_LatestTimestampWins ==
    FoldDone =>
        \A k \in DOMAIN buckets.val :
            LET w == buckets.val[k]
                tied == {m \in SeenOf(k, Len(records)) : records[m][3] = w[1]}
                stamped == {m \in tied : records[m][4] # None}
            IN  /\ tied # {}
                /\ (w[2] = None) <=> (stamped = {})
                /\ stamped # {} => w[2][1] = MaxOf({records[m][4][1] : m \in stamped})

C4_Witness ==
    /\ FoldDone
    /\ Len(records) = 3
    /\ \A m \in 1..3 : KeyOf(records[m]) = <<"P1", "insurance">> /\ records[m][3] = Some(DateLate)
    /\ records[1][4] = Some(2)
    /\ records[2][4] = None
    /\ records[3][4] = Some(1)
    /\ buckets.val[<<"P1", "insurance">>] = <<Some(DateLate), Some(2)>>

\* C5: a record with a known expiry and an event type other than
\* registration is in upcoming iff expiry - today is 5 or 1, in expired iff
\* it is negative, in neither bucket otherwise, never in both or twice.
C5_WindowsByDelta ==
    pc = "done" =>
        \A n \in DOMAIN result :
            LET r == result[n]
            IN  (r.expiry_date # None /\ r.event_type # "registration_certificate") =>
                    LET delta == r.expiry_date[1] - today
                    IN  /\ Occurrences(upcoming, r) = (IF delta = 5 \/ delta = 1 THEN 1 ELSE 0)
                        /\ Occurrences(expired, r) = (IF delta < 0 THEN 1 ELSE 0)
                        /\ Occurrences(upcoming, r) + Occurrences(expired, r) <= 1

C5_Witness ==
    /\ pc = "done"
    /\ Len(upcoming) = 1
    /\ Len(expired) = 1
    /\ upcoming[1].plate = "P1"
    /\ upcoming[1].expiry_date[1] - today = 5
    /\ expired[1].expiry_date[1] - today < 0

\* C6: no record of event type registration_certificate and no record
\* without expiry date is placed in upcoming or expired.
C6_NeverClassified ==
    pc = "done" =>
        \A n \in DOMAIN result :
            (result[n].event_type = "registration_certificate" \/ result[n].expiry_date = None) =>
                /\ Occurrences(upcoming, result[n]) = 0
                /\ Occurrences(expired, result[n]) = 0

C6_Witness ==
    /\ pc = "done"
    /\ Len(result) = 3
    /\ \E n \in DOMAIN result :
          /\ result[n].event_type = "registration_certificate"
          /\ result[n].expiry_date = Some(DateLate)
          /\ today = DateLate - 5
    /\ \E n \in DOMAIN result : result[n].expiry_date = None
    /\ Len(upcoming) = 1

----------------------------------------------------------------------------
(* Properties of the snapshot store and the summary handlers *)

SummaryOps == {"daily", "info", "dryrun", "sendtoday"}

\* the last operation is a summary handler that called compute_windows
Classified == pc = "returned" /\ op.name \in SummaryOps /\ ret.msg = "summary"

IsExcluded(plate) == plate \in DOMAIN vehicles /\ vehicles[plate].excluded

\* the plates of the reconciled observations of the rows a sync read
SeenPlates(rows) ==
    {LatestRecords(NormalizeRowsWithDocs(rows))[n].plate :
        n \in DOMAIN LatestRecords(NormalizeRowsWithDocs(rows))}

\* this step is a run of sync_from_google_sheets
SyncStep == pc = "idle" /\ pc' = "returned" /\ op'.name = "sync"

\* C7: in every path that calls compute_windows no record of an excluded
\* entity is in its input.
C7_ExcludedNeverClassified ==
    Classified => \A n \in DOMAIN result : ~IsExcluded(result[n].plate)

\* C8: a snapshot whose excluded flag is true is never removed by a sync,
\* also when its entity is absent from the sync's observations; it stays
\* stored and excluded until it is restored.
C8_ExcludedNeverPruned ==
    [][\A plate \in DOMAIN vehicles :
          vehicles[plate].excluded =>
              /\ plate \in DOMAIN vehicles'
              /\ plate \notin removed'
              /\ \/ vehicles'[plate].excluded
                 \/ op'.name = "restore" /\ op'.arg = plate]_vars

C8_Witness ==
    /\ pc = "returned"
    /\ op.name = "sync"
    /\ ret.msg = "sync_completed"
    /\ IsExcluded("P1")
    /\ "P1" \notin SeenPlates(raw)
    /\ removed = {"P2"}

\* C9 (state part): after a sync that completed every stored snapshot that
\* is not excluded belongs to an entity of the sync's reconciled observations.
C9_StoredWereSeen ==
    (pc = "returned" /\ op.name = "sync" /\ ret.ok) =>
        \A plate \in DOMAIN vehicles :
            ~vehicles[plate].excluded => plate \in SeenPlates(raw)

\* C9 (step part): a completed sync removes every snapshot that is absent
\* from its observations and not excluded, and no sync removes a snapshot
\* of an entity it has seen.
C9_PruneStep ==
    SyncStep =>
        \A plate \in DOMAIN vehicles :
            /\ (ret'.ok /\ plate \notin SeenPlates(raw') /\ ~vehicles[plate].excluded)
                  => (plate \notin DOMAIN vehicles' /\ plate \in removed')
            /\ plate \in SeenPlates(raw') => (plate \in DOMAIN vehicles' /\ plate \notin removed')

C10_SyncKeepsExclusion ==
    [][SyncStep =>
          /\ \A plate \in (DOMAIN vehicles) \cap (DOMAIN vehicles') :
                /\ vehicles'[plate].excluded = vehicles[plate].excluded
                /\ vehicles'[plate].excluded_at = vehicles[plate].excluded_at
                /\ vehicles'[plate].excluded_by = vehicles[plate].excluded_by
          /\ \A plate \in SeenPlates(raw') \ DOMAIN vehicles :
                /\ plate \in DOMAIN vehicles'
                /\ ~vehicles'[plate].excluded]_vars

\* the reconciled records of the rows a sync read that belong to plate
ReconciledOf(rows, plate) ==
    LET OfPlate(r) == r.plate = plate
    IN  SelectSeq(LatestRecords(NormalizeRowsWithDocs(rows)), OfPlate)

\* the last operation is a sync that read the data tab and did not fail to
\* write the file
SyncRan ==
    /\ pc = "returned"
    /\ op.name = "sync"
    /\ ret.msg \notin {"read_failed", "save_failed"}

\* C11: after a sync the events stored for every observed entity are exactly
\* the reconciled records of that sync for the entity, one per event type
\* with the winner's expiry, and last_seen is the time of this sync.
C11_EventsAreReconciled ==
    SyncRan =>
        \A plate \in SeenPlates(raw) :
            /\ plate \in DOMAIN vehicles
            /\ vehicles[plate].last_seen = IsoDateTime(now)
            /\ LET recs == ReconciledOf(raw, plate)
                   events == vehicles[plate].events
               IN  /\ Len(events) = Len(recs)
                   /\ \A n \in DOMAIN recs :
                         /\ events[n].event_type = recs[n].event_type
                         /\ events[n].expires =
                               (IF recs[n].expiry_date # None
                                THEN IsoDate(recs[n].expiry_date[1]) ELSE None)

\* C12: a sync whose rows hold at least one recognised event label returns
\* success, and afterwards the store holds a snapshot for every entity of
\* those rows.
C12_FirstSyncCreatesSnapshot ==
    (SyncRan /\ SeenPlates(raw) # {}) =>
        /\ ret.ok
        /\ SeenPlates(raw) \subseteq DOMAIN vehicles

\* C13: when writing the file fails during a sync, the sync reports failure
\* and the file on disk is the one that existed before the sync: no
\* partially written or truncated file is visible.
C13_FailedWriteKeepsFile ==
    [][(SyncStep /\ ret'.msg = "save_failed") =>
          /\ ~ret'.ok
          /\ disk' = disk
          /\ disk'.state # "partial"]_vars

\* JSONStorage.get_all_vehicles: a copy of self.data["vehicles"]
get_all_vehicles(stored) == [plate \in DOMAIN stored |-> stored[plate]]

\* C14: if update_vehicle_data_enhanced does not complete successfully (an
\* exception during the merge or a failed save), get_all_vehicles returns
\* afterwards exactly what it returned before the call; a new snapshot is
\* visible only after it has been persisted.
C14_MergeIsAtomic ==
    [][SyncStep =>
          /\ ~ret'.ok => get_all_vehicles(vehicles') = get_all_vehicles(vehicles)
          /\ get_all_vehicles(vehicles') # get_all_vehicles(vehicles) =>
                (disk'.state = "ok" /\ disk'.vehicles = vehicles')]_vars

\* C15: when the spreadsheet read fails during sync_from_google_sheets no
\* exception escapes: the call returns (False, message) and the persisted
\* snapshot and the in-memory store are unchanged.
C15_ReadFailureKeepsStore ==
    [][(SyncStep /\ ret'.msg = "read_failed") =>
          /\ ~ret'.ok
          /\ vehicles' = vehicles
          /\ disk' = disk]_vars

C15_Witness ==
    /\ pc = "returned"
    /\ op.name = "sync"
    /\ ret = [ok |-> FALSE, msg |-> "read_failed"]
    /\ DOMAIN vehicles = {"P1", "P2"}
    /\ disk.state = "ok"
    /\ disk.vehicles = vehicles

----------------------------------------------------------------------------
(* Properties of the normalisation of the rows by every caller *)

NormalizingOps == {"daily", "info", "dryrun", "sendtoday", "sarasas", "id", "sync"}

\* the last operation read the data tab and built its list of observations
ReadRows ==
    /\ pc = "returned"
    /\ op.name \in NormalizingOps
    /\ ret.msg \notin {"denied", "read_failed"}

Recognised(r) == Strip(r.event_raw) \in DOMAIN EVENT_MAP

\* the plate the last operation gives the observation of row r
PlateOf(r) == IF op.name \in {"sarasas", "id"} THEN Upper(Strip(r.plate)) ELSE r.plate

\* the rows of raw the last operation turns into observations
KeptRows ==
    {n \in DOMAIN raw :
        Recognised(raw[n]) /\ (op.name \in {"sarasas", "id"} => raw[n].plate # "")}

\* C17: a row whose event label is not in the fixed table (after trimming)
\* is skipped by every caller (daily run, /info, /dryrun, /sendtoday,
\* /sarasas, /id, sync): every observation given to latest_by_plate_event,
\* and every record it returns, comes from a row with a recognised label.
C17_UnknownLabelSkipped ==
    ReadRows =>
        /\ Len(records) <= Cardinality(KeptRows)
        /\ \A m \in DOMAIN records :
              \E n \in KeptRows :
                  /\ records[m][1] = PlateOf(raw[n])
                  /\ records[m][2] = EVENT_MAP[Strip(raw[n].event_raw)]
        /\ \A k \in DOMAIN result :
              \E n \in KeptRows :
                  /\ result[k].plate = PlateOf(raw[n])
                  /\ result[k].event_type = EVENT_MAP[Strip(raw[n].event_raw)]

C17_Witness ==
    /\ ReadRows
    /\ op.name = "id"
    /\ Len(raw) = 2
    /\ ~Recognised(raw[1])
    /\ Recognised(raw[2])
    /\ raw[1].plate = raw[2].plate
    /\ Len(records) = 1
    /\ Len(result) = 1

\* the expiry text of row r is no date in any accepted format
Unparsed(r) == parse_mmddyyyy(r.expiry_raw) = None

\* C18 as stated: a row whose expiry text cannot be parsed is dropped by the
\* normaliser, so no observation given to latest_by_plate_event and no
\* record it returns is without expiry.
C18_UnparsedDropped ==
    ReadRows =>
        /\ \A m \in DOMAIN records : records[m][3] # None
        /\ \A k \in DOMAIN result : result[k].expiry_date # None

\* C18: a row with a recognised label whose expiry text cannot be parsed is
\* kept by the normaliser with an absent expiry: it contributes exactly one
\* observation without expiry to latest_by_plate_event, and its
\* (plate, event_type) key gets a record.
C18_UnparsedKeptWithoutExpiry ==
    ReadRows =>
        /\ Cardinality({m \in DOMAIN records : records[m][3] = None})
              = Cardinality({n \in KeptRows : Unparsed(raw[n])})
        /\ \A n \in KeptRows :
              Unparsed(raw[n]) =>
                  /\ \E m \in DOMAIN records :
                        records[m] = <<PlateOf(raw[n]), EVENT_MAP[Strip(raw[n].event_raw)],
                                       None, ParseTimestamp(raw[n].timestamp)>>
                  /\ \E k \in DOMAIN result :
                        /\ result[k].plate = PlateOf(raw[n])
                        /\ result[k].event_type = EVENT_MAP[Strip(raw[n].event_raw)]

C18_Witness ==
    /\ ReadRows
    /\ op.name = "daily"
    /\ Len(raw) = 2
    /\ Unparsed(raw[1])
    /\ raw[1].event_raw = "TA galiojimas"
    /\ raw[1].plate = "P2"
    /\ ~Unparsed(raw[2])
    /\ raw[2].plate = "P2"
    /\ Recognised(raw[2])
    /\ Len(result) = 2
    /\ result[1] = DeadlineRecord("P2", "inspection", None)

----------------------------------------------------------------------------
(* Properties of the broadcasts *)

BroadcastOps == {"daily", "sendtoday"}

\* a broadcast has composed its summary and its handler has returned
BroadcastEnded == pc = "returned" /\ op.name \in BroadcastOps /\ ret.ok

\* the chat ids of the recipients of a batch, in the order of the loop
ChatIds(list) == [n \in DOMAIN list |-> list[n].chat_id]

\* C19 (safety part): while a broadcast runs the sends made so far are those
\* of the first recipients of the batch, one each, whatever their outcome;
\* when it has ended there is exactly one send for every recipient.
C19_OneAttemptEach ==
    /\ pc = "sending" =>
          /\ Len(attempts) <= Len(batch)
          /\ ChatIds(attempts) = SubSeq(ChatIds(batch), 1, Len(attempts))
    /\ BroadcastEnded => ChatIds(attempts) = ChatIds(batch)

\* C19: in the daily run and in /sendtoday a failed send does not abort the
\* batch: a send is attempted exactly once for every recipient of the batch
\* regardless of earlier failures, and the broadcast terminates.
C19_FailedSendDoesNotAbort ==
    /\ []C19_OneAttemptEach
    /\ (pc = "sending") ~> BroadcastEnded

C19_Witness ==
    /\ BroadcastEnded
    /\ op.name = "sendtoday"
    /\ Len(batch) = 2
    /\ ~attempts[1].ok
    /\ attempts[2].ok

\* the daily run whose read of the data tab failed has returned
DailyReadFailed == pc = "returned" /\ op.name = "daily" /\ ret.msg = "read_failed"

\* C16: when the spreadsheet read fails during a daily run, the run falls
\* back to the stored snapshot: the reminders are computed from the stored
\* vehicles and a send is made to every recipient, instead of the run
\* ending without any message.
C16_FallsBackToSnapshot ==
    DailyReadFailed =>
        /\ \A plate \in DOMAIN vehicles :
              ~vehicles[plate].excluded => \E k \in DOMAIN result : result[k].plate = plate
        /\ \A r \in DailyRecipients(users) :
              \E n \in DOMAIN attempts : attempts[n].chat_id = r.chat_id

\* C20: when a broadcast (daily run or /sendtoday) has ended, the number of
\* successful sends plus the number of counted failures equals the number
\* of recipients attempted.
C20_FailuresCounted ==
    BroadcastEnded =>
        /\ sent_count = Cardinality({n \in DOMAIN attempts : attempts[n].ok})
        /\ sent_count + error_count = Len(attempts)

----------------------------------------------------------------------------
(* Properties of the authorisation of the commands and callbacks *)

\* the sender is in one of the two static lists of the configuration
InAdminLists(u) ==
    \/ u.id \in AdminUserIds
    \/ /\ u.username # None
       /\ Lower(u.username[1]) \in AdminUsernames

\* the commands and callbacks that are for admins only
AdminOps ==
    {"dryrun", "sendtoday", "pending", "approve", "users",
     "cb_approve", "cb_reject", "cb_deluser"}

\* the effects of the admin operations on their sender and on the users
AdminReplies ==
    {"summary", "sent", "pending_list", "none_pending", "users_list", "no_users",
     "approved", "approve", "reject", "deluser", "user_not_found"}

\* the rows of the table without the cells start writes for its sender
Standing(table) ==
    [n \in DOMAIN table |-> <<table[n].telegram_user_id, table[n].status>>]

\* a step of start registers its sender as pending or leaves the ids and
\* the statuses of the rows as they are
OnlyRegisters ==
    \/ Standing(users') = Standing(users)
    \/ /\ find_by_user_id(users, sender'.id) = 0
       /\ Standing(users') = Append(Standing(users), <<sender'.id, "pending">>)

\* C21: an admin operation asked by a sender that is in neither static
\* list of admins has no effect: the Users tab is unchanged, no summary and
\* no list is replied, no broadcast is started.  The Users tab changes
\* only in an admin operation of an admin, or in start, which registers
\* its sender as pending and changes no status; a message of the
\* sendtoday broadcast is sent only for an admin.
C21_AdminOnly ==
    [][/\ (pc = "idle" /\ op'.name \in AdminOps /\ ~InAdminLists(sender'))
            => /\ users' = users
               /\ ret'.msg = "denied"
               /\ pc' = "returned"
               /\ batch' = <<>>
       /\ (users' # users)
            => \/ op'.name \in AdminOps /\ InAdminLists(sender')
               \/ op'.name = "start" /\ OnlyRegisters
       /\ (attempts' # attempts /\ attempts' # <<>> /\ op'.name = "sendtoday")
            => InAdminLists(sender')
       /\ (op'.name \in AdminOps /\ ret'.msg \in AdminReplies)
            => InAdminLists(sender')]_vars

\* a sender that is no admin has pressed the approve button of its own
\* pending row and is still pending
C21_Witness ==
    /\ pc = "returned"
    /\ op.name = "cb_approve"
    /\ ~InAdminLists(sender)
    /\ op.arg = Str(sender.id)
    /\ find_by_user_id(users, sender.id) # 0
    /\ users[find_by_user_id(users, sender.id)].status = "pending"
    /\ \E n \in DOMAIN users : users[n].status = "approved"

\* the commands and the callback that reply with vehicle data
VehicleOps == {"info", "sarasas", "id", "plate", "cb_plate"}

\* the replies that are made of the rows of the data tab
DataReplies == {"summary", "list", "details", "empty", "not_found"}

\* the Users tab has a row of the sender with the status approved
HasApprovedRow(u, table) ==
    \E n \in DOMAIN table :
        table[n].telegram_user_id = u.id /\ table[n].status = "approved"

\* C22: a reply made of vehicle data (the summary of /info, the list of
\* /sarasas, the details of /id, of /PLATE and of the plate callback) goes
\* only to a sender that is an admin or has a row with the status approved
\* in the Users tab when the request is handled; for every other sender
\* the data tab is not even read.
C22_OnlyApprovedReceive ==
    (pc = "returned" /\ op.name \in VehicleOps)
        => /\ ret.msg \in DataReplies
                => InAdminLists(sender) \/ HasApprovedRow(sender, users)
           /\ ~(InAdminLists(sender) \/ HasApprovedRow(sender, users))
                => /\ ret.msg \in {"denied", "ignored", "unknown_command"}
                   /\ raw = <<>>
                   /\ result = <<>>

\* an approved user that is no admin has received the details of a plate
\* from the plate callback while another user is pending
C22_Witness ==
    /\ pc = "returned"
    /\ op.name = "cb_plate"
    /\ ret.msg = "details"
    /\ ~InAdminLists(sender)
    /\ HasApprovedRow(sender, users)
    /\ \E n \in DOMAIN users : users[n].status \in {"pending", "rejected"}

\* the rows of the Users tab that hold the chat id
RowsOfChat(chat_id) ==
    {n \in DOMAIN users : users[n].telegram_chat_id = Some(chat_id)}

\* a message of the broadcast was sent to the chat
Reached(chat_id) == \E i \in DOMAIN attempts : attempts[i].chat_id = chat_id

\* C23: every chat to which a broadcast sends belongs to a row of the Users
\* tab that has this chat id and is approved or, in the daily run only,
\* is the row of an admin by id; the chat of a pending or rejected user
\* that is no admin gets no message, and sendtoday sends to approved users
\* only.
C23_RecipientsApproved ==
    /\ \A i \in DOMAIN attempts :
        \E n \in RowsOfChat(attempts[i].chat_id) :
            \/ users[n].status = "approved"
            \/ op.name = "daily" /\ users[n].telegram_user_id \in AdminUserIds
    /\ \A n \in DOMAIN users :
        (/\ users[n].status \in {"pending", "rejected"}
         /\ users[n].telegram_user_id \notin AdminUserIds
         /\ users[n].telegram_chat_id # None)
            => ~Reached(users[n].telegram_chat_id[1])

\* the daily run has sent to an admin whose row is pending and is over,
\* and the rejected user with a chat id got nothing
C23_Witness ==
    /\ op.name = "daily"
    /\ pc = "returned"
    /\ attempts # <<>>
    /\ \E n \in DOMAIN users :
        /\ users[n].telegram_user_id \in AdminUserIds
        /\ users[n].status = "pending"
        /\ users[n].telegram_chat_id # None
        /\ Reached(users[n].telegram_chat_id[1])
    /\ \E n \in DOMAIN users :
        /\ users[n].telegram_user_id \notin AdminUserIds
        /\ users[n].status = "rejected"
        /\ users[n].telegram_chat_id # None

\* the snapshot store is what a resync from the rows leaves: every stored
\* snapshot that is not excluded is of a plate of the rows, every plate of
\* the rows is stored, and the file holds the store
ResyncedFrom(rows) ==
    /\ \A plate \in DOMAIN vehicles :
          ~vehicles[plate].excluded => plate \in SeenPlates(rows)
    /\ \A plate \in SeenPlates(rows) : plate \in DOMAIN vehicles
    /\ disk.state = "ok"
    /\ disk.vehicles = vehicles

\* C25: a daily fire resyncs the snapshot store from the spreadsheet before
\* it classifies and broadcasts: when the first message of the daily run is
\* sent, the store has been resynced from the rows this run has read.
C25_ResyncBeforeBroadcast ==
    (op.name = "daily" /\ attempts # <<>>) => ResyncedFrom(raw)

----------------------------------------------------------------------------
(* Properties of concurrent syncs *)

\* the invocation has read the rows and has not yet left the save
InReadMergePersist(t) == tasks[t].at \in {"merge", "persist"}

\* the store: self.data in memory and the JSON file
Store(data, file) == [vehicles |-> data, disk |-> file]

\* the store after the invocation task has run alone on the store
RunAlone(store, task) ==
    IF task.read = None THEN store
    ELSE LET upd == update_vehicle_data_enhanced(
                        store.vehicles, NormalizeRowsWithDocs(task.read[1]), now)
         IN  IF upd.raised THEN store
             ELSE Store(upd.vehicles, DiskAfterSave(task.outcome, upd.vehicles, store.disk))

\* C26: two invocations of sync_from_google_sheets on the event loop never
\* overlap: while one is between its read and the end of its save the
\* other is before its read or has returned; and when both have returned
\* the store is what the two leave when they run one after the other, in
\* one of the two orders, with the rows each has read.
C26_SyncsNeverOverlap ==
    (DOMAIN tasks = Tasks) =>
        /\ ~(InReadMergePersist(1) /\ InReadMergePersist(2))
        /\ \A t \in Tasks : InReadMergePersist(t) => running = t
        /\ (\A t \in Tasks : tasks[t].at = "done") =>
              Store(vehicles, disk) \in
                  {RunAlone(RunAlone(Store(LoadData(SyncBaseFile), SyncBaseFile), tasks[1]), tasks[2]),
                   RunAlone(RunAlone(Store(LoadData(SyncBaseFile), SyncBaseFile), tasks[2]), tasks[1])}

\* both invocations have returned; one pruned the store and could not
\* write, the other then wrote the pruned store
C26_Witness ==
    /\ DOMAIN tasks = Tasks
    /\ \A t \in Tasks : tasks[t].at = "done"
    /\ \E t \in Tasks : tasks[t].returned = "save_failed"
    /\ \E t \in Tasks : tasks[t].returned = "sync_completed"
    /\ "P1" \notin DOMAIN vehicles
    /\ disk.state = "ok"
    /\ disk.vehicles = vehicles

----------------------------------------------------------------------------
(* Properties of the summary text *)

\* the indexes of the lines of the kinds
LinesOf(kinds) == {n \in DOMAIN text : text[n].kind \in kinds}

\* C27: the text is exactly the no-reminders message if and only if both
\* lists are empty; otherwise the header of the upcoming is in the text if
\* and only if upcoming is not empty, the header of the expired if and
\* only if expired is not empty, each once, and every line of the upcoming
\* section stands before every line of the expired section.
C27_HeadersAndOrder ==
    (pc = "formatted") =>
        /\ (text = NoReminders) <=> (upcoming = <<>> /\ expired = <<>>)
        /\ LinesOf({"no_reminders"}) # {} => text = NoReminders
        /\ Cardinality(LinesOf({"upcoming_header"})) = IF upcoming = <<>> THEN 0 ELSE 1
        /\ Cardinality(LinesOf({"expired_header"})) = IF expired = <<>> THEN 0 ELSE 1
        /\ \A i \in LinesOf({"upcoming_header", "upcoming"}) :
              \A j \in LinesOf({"expired_header", "expired"}) : i < j
        /\ \A i \in LinesOf({"upcoming_header"}) : \A j \in LinesOf({"upcoming"}) : i < j
        /\ \A i \in LinesOf({"expired_header"}) : \A j \in LinesOf({"expired"}) : i < j

\* both lists are given and the text has both sections
C27_Witness ==
    /\ pc = "formatted"
    /\ Len(upcoming) = 2
    /\ Len(expired) = 2
    /\ LinesOf({"upcoming_header"}) = {1}
    /\ LinesOf({"expired_header"}) = {5}

\* the sort key of a record as a tuple of numbers, and its order
KeyTuple(r) == <<OrDateMin(r.expiry_date), StrRank(r.plate), StrRank(r.event_type)>>

TupleLeq(a, b) ==
    \/ a[1] < b[1]
    \/ a[1] = b[1] /\ a[2] < b[2]
    \/ a[1] = b[1] /\ a[2] = b[2] /\ a[3] <= b[3]

\* the entry lines of the section kind, in the order of the text
EntriesOf(kind) ==
    LET IsEntry(line) == line.kind = kind
    IN  SelectSeq(text, IsEntry)

\* the entries of the section are the lines of the records of list, one
\* for each record, in an ascending order of their keys
SortedSection(kind, list) ==
    \E p \in Permutations(DOMAIN list) :
        /\ Len(EntriesOf(kind)) = Len(list)
        /\ \A n \in DOMAIN list :
              EntriesOf(kind)[n] = Line(kind, list[p[n]].plate,
                                        LabelOf(list[p[n]].event_type),
                                        OrDateMin(list[p[n]].expiry_date))
        /\ \A n, m \in DOMAIN list :
              n < m => TupleLeq(KeyTuple(list[p[n]]), KeyTuple(list[p[m]]))

\* C28: in each section the entries are in ascending (expiry_date, plate,
\* event_type) order, one entry for each record of the list, and the text
\* is the same for every ordering of the same upcoming and expired records.
C28_SortedAndOrderFree ==
    (pc = "formatted") =>
        /\ SortedSection("upcoming", upcoming)
        /\ SortedSection("expired", expired)
        /\ \A p \in Permutations(DOMAIN upcoming), q \in Permutations(DOMAIN expired) :
              format_summary_lt(Permuted(upcoming, p), Permuted(expired, q)) = text

\* records given in descending order of their keys are listed in
\* ascending order: by date in the first section, by event type for the
\* same date and plate in the second
C28_Witness ==
    /\ pc = "formatted"
    /\ upcoming = <<DeadlineRecord("P1", "insurance", Some(DateLate)),
                    DeadlineRecord("P2", "insurance", Some(DateMin))>>
    /\ expired = <<DeadlineRecord("P1", "insurance", Some(DateLate)),
                   DeadlineRecord("P1", "inspection", Some(DateLate))>>
    /\ text[2].plate = "P2"
    /\ text[3].plate = "P1"
    /\ text[6].label = "TA galiojimas"
    /\ text[7].label = "CA draudimas"

----------------------------------------------------------------------------
(* Properties of the document links *)

\* the raw events of the rows the last sync read
RawEvents == NormalizeRowsWithDocs(raw)

\* the key (plate, event_type, expiry, observed_at) of the winner that the
\* reconciliation kept for the pair k
WinnerKey(k) == <<k[1], k[2], buckets.val[k][1], buckets.val[k][2]>>

\* C29: after a sync the event stored for every reconciled (plate,
\* event_type) carries the document links of a raw row whose (plate,
\* event_type, expiry, observed_at) is the key of the winner, never those
\* of another row.
C29_LinksOfWinner ==
    SyncRan =>
        \A k \in DOMAIN buckets.val :
            /\ k[1] \in DOMAIN vehicles
            /\ \E i \in DOMAIN vehicles[k[1]].events :
                  /\ vehicles[k[1]].events[i].event_type = k[2]
                  /\ \E n \in DOMAIN RawEvents :
                        /\ RawEventKey(RawEvents[n]) = WinnerKey(k)
                        /\ vehicles[k[1]].events[i].doc_links = RawEvents[n][5]

\* C30: when several raw rows of one sync have the same (plate, event_type,
\* expiry, observed_at), the links kept for this key in doc_links_lookup
\* are those of the last of these rows; the lookup has exactly the keys of
\* the raw rows.
C30_LastLinksWin ==
    (pc = "returned" /\ op.name = "sync" /\ ret.msg # "read_failed") =>
        /\ DOMAIN doc_links_lookup = {RawEventKey(RawEvents[n]) : n \in DOMAIN RawEvents}
        /\ \A n \in DOMAIN RawEvents :
              (\A m \in DOMAIN RawEvents :
                    m > n => RawEventKey(RawEvents[m]) # RawEventKey(RawEvents[n]))
                 => doc_links_lookup[RawEventKey(RawEvents[n])] = RawEvents[n][5]

\* a sync has read two rows of the same key with different links and has
\* kept the links of the second
C30_Witness ==
    /\ pc = "returned"
    /\ op.name = "sync"
    /\ Len(RawEvents) = 2
    /\ RawEventKey(RawEvents[1]) = RawEventKey(RawEvents[2])
    /\ RawEvents[1][5] = <<"doc">>
    /\ RawEvents[2][5] = <<"doc2">>
    /\ doc_links_lookup[RawEventKey(RawEvents[1])] = <<"doc2">>

----------------------------------------------------------------------------
(* Properties of the details of a plate *)

\* the handlers that reply with the details of a plate
PlateOps == {"id", "plate", "cb_plate"}

\* the plate the last operation looked up
AskedPlate == Upper(Strip(op.arg))

\* C31: the document links that /id, /PLATE and the plate button show for
\* the registration certificate of a plate are the links of a raw row whose
\* expiry and timestamp are those of the winner of the reconciliation for
\* (plate, registration_certificate), not those of another row of the pair.
C31_ShownLinksOfWinner ==
    (pc = "returned" /\ op.name \in PlateOps /\ ret.msg = "details") =>
        LET k == <<AskedPlate, "registration_certificate">>
        IN  k \in DOMAIN buckets.val =>
                \E n \in DOMAIN raw :
                    /\ IsCertificateRow(raw[n], AskedPlate)
                    /\ parse_mmddyyyy(raw[n].expiry_raw) = buckets.val[k][1]
                    /\ ParseTimestamp(raw[n].timestamp) = buckets.val[k][2]
                    /\ doc_links = DocLinks(raw[n])

----------------------------------------------------------------------------
(* Properties of the recipients of the daily run *)

\* C32: in one daily reminder run no chat id is sent the reminder more than
\* once: the recipients hold at most one entry per chat id, also for a user
\* who is approved and an admin, and no two calls of send_message of the run
\* go to the same chat id.
C32_OneMessagePerChat ==
    op.name = "daily" =>
        /\ \A i, j \in DOMAIN batch : i # j => batch[i].chat_id # batch[j].chat_id
        /\ \A i, j \in DOMAIN attempts : i # j => attempts[i].chat_id # attempts[j].chat_id

----------------------------------------------------------------------------
(* Properties of exclude and restore *)

\* this step is a call of DataSync.exclude_vehicle
ExcludeStep == pc = "idle" /\ pc' = "returned" /\ op'.name = "exclude"

\* the plate the call of the step is about
StepPlate == Upper(op'.arg)

\* C33: exclude_vehicle on a plate that is not stored, or on a plate that is
\* excluded already, returns failure and leaves every stored field as it was
\* (excluded_at and excluded_by of the excluded plate included); on a stored
\* plate that is not excluded it sets excluded to true with excluded_by and
\* changes neither the events of the plate nor any other plate.
C33_ExcludeOnlyOnce ==
    [][ExcludeStep =>
          IF StepPlate \notin DOMAIN vehicles \/ vehicles[StepPlate].excluded
          THEN /\ ~ret'.ok
               /\ vehicles' = vehicles
               /\ disk' = disk
          ELSE /\ DOMAIN vehicles' = DOMAIN vehicles
               /\ vehicles'[StepPlate].excluded
               /\ vehicles'[StepPlate].excluded_by \in {Some(a) : a \in Admins}
               /\ vehicles'[StepPlate].events = vehicles[StepPlate].events
               /\ \A plate \in DOMAIN vehicles \ {StepPlate} :
                     vehicles'[plate] = vehicles[plate]]_vars

\* a second exclusion of P1, a tick of the clock after the first, was
\* refused; P2 is stored as well
C33_Witness ==
    /\ pc = "returned"
    /\ op.name = "exclude"
    /\ ret.msg = "already_excluded"
    /\ now = 1
    /\ DOMAIN vehicles = {"P1", "P2"}
    /\ vehicles["P1"].excluded
    /\ vehicles["P1"].excluded_at = IsoDateTime(0)
    /\ Upper(op.arg) = "P1"

\* this step is a call of JSONStorage.restore_vehicle
RestoreStep == pc = "idle" /\ pc' = "returned" /\ op'.name = "restore"

\* the snapshot differs from the earlier one by its exclusion fields at most
SameButExclusion(after, before) ==
    /\ after.events = before.events
    /\ after.last_seen = before.last_seen

\* a snapshot that is not excluded has no excluded_at and no excluded_by
NotExcluded(v) == ~v.excluded /\ v.excluded_at = None /\ v.excluded_by = None

\* C34: excluding a stored vehicle and restoring it returns its snapshot to
\* the state before the exclusion (excluded false, excluded_at and
\* excluded_by empty, events and last_seen as they were), and after the
\* restore the next sync that reads its rows and does not observe the
\* vehicle removes it again.
C34_RestoreUndoesExclude ==
    [][/\ \A plate \in DOMAIN vehicles : ~vehicles[plate].excluded => NotExcluded(vehicles[plate])
       /\ (ExcludeStep /\ StepPlate \in DOMAIN vehicles) =>
              SameButExclusion(vehicles'[StepPlate], vehicles[StepPlate])
       /\ (RestoreStep /\ op'.arg \in DOMAIN vehicles) =>
              /\ NotExcluded(vehicles'[op'.arg])
              /\ SameButExclusion(vehicles'[op'.arg], vehicles[op'.arg])
       /\ (SyncStep /\ ret'.msg # "read_failed") =>
              \A plate \in DOMAIN vehicles :
                  (NotExcluded(vehicles[plate]) /\ plate \notin SeenPlates(raw'))
                      => plate \notin DOMAIN vehicles']_vars

----------------------------------------------------------------------------
(* Properties of the Users tab *)

\* the rows of the user in the Users tab
RowsOfUser(table, user_id) == {n \in DOMAIN table : table[n].telegram_user_id = user_id}

\* C35: after any sequence of /start, approve, reject and delete-user
\* operations the Users tab holds at most one row per telegram_user_id:
\* /start of a user that has a row appends no second row.
C35_OneRowPerUser ==
    \A n \in DOMAIN users : Cardinality(RowsOfUser(users, users[n].telegram_user_id)) = 1

\* /start of a user whose row was there already, next to the row of another
\* user
C35_Witness ==
    /\ pc = "returned"
    /\ op.name = "start"
    /\ ret.msg \in {"already_pending", "already_approved"}
    /\ Len(users) = 2
    /\ RowsOfUser(users, sender.id) # {}

\* the status of the user in the table, "" for a user without row
StatusOf(table, user_id) ==
    IF find_by_user_id(table, user_id) = 0 THEN ""
    ELSE table[find_by_user_id(table, user_id)].status

\* the user ids of the rows of the table
UserIds(table) == {table[n].telegram_user_id : n \in DOMAIN table}

\* the operations that are an admin's approve action
ApproveOps == {"approve", "cb_approve"}

\* C36: /start never changes the status of a user whose status is not
\* blank (approved stays approved, rejected stays rejected, pending stays
\* pending), and the status of a user becomes approved only through the
\* approve action of an admin.
C36_StartKeepsStatus ==
    [][/\ op'.name = "start" =>
              \A uid \in UserIds(users) :
                  StatusOf(users, uid) # "" => StatusOf(users', uid) = StatusOf(users, uid)
       /\ \A uid \in UserIds(users') :
              (StatusOf(users', uid) = "approved" /\ StatusOf(users, uid) # "approved")
                  => /\ op'.name \in ApproveOps
                     /\ op'.arg = Str(uid)
                     /\ is_admin(sender')]_vars

\* /start of a user that an admin had approved, the tab holding the row of
\* a rejected user as well
C36_Witness ==
    /\ pc = "returned"
    /\ op.name = "start"
    /\ ret.msg = "already_approved"
    /\ StatusOf(users, sender.id) = "approved"
    /\ \E n \in DOMAIN users : users[n].status = "rejected"

\* the operations that call approve, reject or delete_user of UsersRepo
UserAdminOps == {"approve", "cb_approve", "cb_reject", "cb_deluser"}

\* the rows of the table that are not rows of the user, in their order
RowsOfOthers(table, user_id) ==
    LET Other(row) == row.telegram_user_id # user_id
    IN  SelectSeq(table, Other)

\* C37: approve, reject and delete_user for a user id without row return
\* False (the reply is that the user was not found) and leave the Users tab
\* as it was; for a user id with a row they change the row of that user
\* only, its status or its removal, and the row of no other user.
C37_OnlyTheTargetRow ==
    [][(pc = "idle" /\ pc' = "returned" /\ op'.name \in UserAdminOps) =>
          \A uid \in TargetIds :
              op'.arg = Str(uid) =>
                  /\ RowsOfUser(users, uid) = {} =>
                        /\ users' = users
                        /\ ret'.msg \in {"user_not_found", "denied", "sheet_failed"}
                  /\ RowsOfOthers(users', uid) = RowsOfOthers(users, uid)
                  /\ users' # users =>
                        /\ ret'.ok
                        /\ ret'.msg # "user_not_found"]_vars

\* an admin rejected a user by the button while the tab held the pending row
\* of another user
C37_Witness ==
    /\ pc = "returned"
    /\ op.name = "cb_reject"
    /\ ret.msg = "reject"
    /\ Len(users) = 2
    /\ \E n \in DOMAIN users :
          /\ Str(users[n].telegram_user_id) # op.arg
          /\ users[n].status = "pending"
    /\ \E n \in DOMAIN users :
          /\ Str(users[n].telegram_user_id) = op.arg
          /\ users[n].status = "rejected"

====
